---- MODULE Spec2Model ----
(***************************************************************************)
(* Model of the Seattle crime dashboard (src/app.py, src/dashboard.py).    *)
(*                                                                         *)
(* The Dash server keeps one piece of process-wide state, the module       *)
(* global _data_cache filled by load_all_data(); every callback is a       *)
(* request handler that reads its inputs from the request, reads the       *)
(* cache and returns a response.  The drill-down stores live in the        *)
(* browser and are handed to update_drill_level as State.                  *)
(*                                                                         *)
(* Three specifications share the variables:                               *)
(*   SpecLoad   threads interleaving inside load_all_data                  *)
(*   SpecDrill  the drill-down stores under update_drill_level             *)
(*   SpecQuery  the query callbacks over the cached store                  *)
(*                                                                         *)
(* Units: latitude/longitude are integers in 1/1000 degree, dates are day   *)
(* numbers of the year 2024 (2024-01-01 = 1), distances are millimetres.   *)
(***************************************************************************)
EXTENDS Integers, Sequences, FiniteSets, TLC

VARIABLES
    parquet_file,            \* crime_data_gold.parquet: NULL or its content
    csv_file,                \* crime_data_gold.csv: NULL or its content
    data_cache,              \* app.py:32 _data_cache
    pc,                      \* per thread: position inside load_all_data
    force_refresh,           \* per thread: the argument of the running call
    result,                  \* per thread: the local `result` of load_all_data
    calls,                   \* per thread: calls of load_all_data started
    source_reads,            \* number of times the data source was read
    unforced_builds,         \* builds started by calls without force_refresh
    response,                \* the last callback response sent to the browser
    drill_level_store,       \* app.py:763 dcc.Store drill-level-store
    selected_category_store, \* app.py:764 dcc.Store selected-category-store
    click_reset_counter,     \* app.py:765 dcc.Store click-reset-counter
    drill_back_btn_style,    \* style of drill-back-btn
    bar_chart_subtitle,      \* children of bar-chart-subtitle
    clickData,               \* bar-crime-types.clickData
    hour_range_slider,       \* app.py:868 value of the RangeSlider hour-range-slider
    triggered                \* callback_context.triggered of the last call

loadVars  == <<parquet_file, csv_file, data_cache, pc, force_refresh, result,
               calls, source_reads, unforced_builds>>
drillVars == <<drill_level_store, selected_category_store, click_reset_counter,
               drill_back_btn_style, bar_chart_subtitle, clickData,
               hour_range_slider, triggered>>
vars      == <<parquet_file, csv_file, data_cache, pc, force_refresh, result,
               calls, source_reads, unforced_builds, response,
               drill_level_store, selected_category_store, click_reset_counter,
               drill_back_btn_style, bar_chart_subtitle, clickData,
               hour_range_slider, triggered>>

\* Python None where the other values are records (frames, files, dicts)
NULL == [none |-> TRUE]
\* Python None where the other values are strings
NoValue == "None"
\* a missing (NaN) coordinate
NaN == -99999

(***************************************************************************)
(* Bounds of the model                                                     *)
(***************************************************************************)
\* request threads of the (threaded) server
NumThreads == 2
\* calls of load_all_data one thread makes
MaxCalls == 2
\* back-button presses followed
MaxResets == 3
\* optional predicates (date, hour, neighborhood, polygon, circle) a single
\* query combines
MaxActive == 2
\* head(500) of update_table (app.py:2120), scaled to the model's store
TableCap == 2
\* head(5000) of update_map_points (app.py:2222), scaled to the model's store
MapCap == 2

Threads == 1..NumThreads

(***************************************************************************)
(* Records.  R1, R2, R3 are the records of the scenario of the             *)
(* specification; R4 lies 750 m west of R1; R5 has no coordinates; R6 has  *)
(* a category outside PERSON, PROPERTY, SOCIETY.                           *)
(***************************************************************************)
R1 == [id |-> 1, date |-> 1,   hour |-> 10, crime_against_category |-> "PERSON",
       area |-> "BALLARD",  latitude |-> 47610, longitude |-> -122330]
R2 == [id |-> 2, date |-> 153, hour |-> 3,  crime_against_category |-> "PROPERTY",
       area |-> "FREMONT",  latitude |-> 47650, longitude |-> -122300]
R3 == [id |-> 3, date |-> 2,   hour |-> 10, crime_against_category |-> "PERSON",
       area |-> "BALLARD",  latitude |-> 47600, longitude |-> -122340]
R4 == [id |-> 4, date |-> 2,   hour |-> 0,  crime_against_category |-> "SOCIETY",
       area |-> "FREMONT",  latitude |-> 47610, longitude |-> -122340]
R5 == [id |-> 5, date |-> 1,   hour |-> 23, crime_against_category |-> "PROPERTY",
       area |-> "BALLARD",  latitude |-> NaN, longitude |-> NaN]
R6 == [id |-> 6, date |-> 2,   hour |-> 5,  crime_against_category |-> "NOT_A_CRIME",
       area |-> "FREMONT",  latitude |-> 47650, longitude |-> -122300]

Pool == {R1, R2, R3, R4, R5, R6}

\* contents a data file can have
FileRows == { {}, {R1, R2, R3}, Pool }

\* dtype of the date column: datetime64, or object (strings) as a processed
\* Parquet file may carry it
DateDtypes == {"datetime64", "object"}

FileContents == [rows : FileRows, date_dtype : DateDtypes]

(***************************************************************************)
(* Data loading                                                            *)
(***************************************************************************)
\* app.py:35-137: the processed-schema branch (49-56) keeps the rows that
\* have coordinates and leaves the date column as the file has it.
load_from_parquet(file) ==
    IF file = NULL THEN NULL
    ELSE [rows |-> {r \in file.rows : r.latitude # NaN /\ r.longitude # NaN},
          date_dtype |-> file.date_dtype]

\* app.py:139-228: keeps the rows that have coordinates; date is built with
\* pd.to_datetime, so the column is datetime64.
load_from_csv(file) ==
    IF file = NULL THEN NULL
    ELSE [rows |-> {r \in file.rows : r.latitude # NaN /\ r.longitude # NaN},
          date_dtype |-> "datetime64"]

\* app.py:270-274, 287-291: pd.DataFrame(columns=[...])
EmptyFrame == [rows |-> {}, date_dtype |-> "object"]

\* df is not None and not df.empty
Usable(df) == df # NULL /\ df.rows # {}

\* app.py:256-291: the body of load_all_data that reads the source
ReadSource(pq, csv) ==
    IF pq # NULL
    THEN IF Usable(load_from_parquet(pq)) THEN load_from_parquet(pq)
         ELSE IF Usable(load_from_csv(csv)) THEN load_from_csv(csv)
         ELSE EmptyFrame
    ELSE IF Usable(load_from_csv(csv)) THEN load_from_csv(csv)
         ELSE EmptyFrame

\* app.py:244: the cache check of load_all_data
CacheHit_retries_when_empty(cache, force) == cache # NULL /\ cache.rows # {} /\ ~force

CacheHit(cache, force) == cache # NULL /\ ~force

(***************************************************************************)
(* SpecLoad: load_all_data run by concurrent request threads.  The         *)
(* function takes no lock, so each statement group is a step of its own.   *)
(***************************************************************************)
\* a request thread enters load_all_data(force)
Call(t, force) ==
    /\ pc[t] = "idle"
    /\ calls[t] < MaxCalls
    /\ pc' = [pc EXCEPT ![t] = "check"]
    /\ force_refresh' = [force_refresh EXCEPT ![t] = force]
    /\ calls' = [calls EXCEPT ![t] = @ + 1]
    /\ UNCHANGED <<parquet_file, csv_file, data_cache, result, source_reads,
                   unforced_builds, response>>
    /\ UNCHANGED drillVars

\* app.py:244-247: cache hit returns the cached frame itself
CheckCache(t) ==
    /\ pc[t] = "check"
    /\ IF CacheHit(data_cache, force_refresh[t])
       THEN /\ pc' = [pc EXCEPT ![t] = "idle"]
            /\ result' = [result EXCEPT ![t] = data_cache]
       ELSE /\ pc' = [pc EXCEPT ![t] = "read"]
            /\ UNCHANGED result
    /\ UNCHANGED <<parquet_file, csv_file, data_cache, force_refresh, calls,
                   source_reads, unforced_builds, response>>
    /\ UNCHANGED drillVars

\* app.py:249-291: read the Parquet or CSV file into the local `result`
ReadFiles(t) ==
    /\ pc[t] = "read"
    /\ result' = [result EXCEPT ![t] = ReadSource(parquet_file, csv_file)]
    /\ source_reads' = source_reads + 1
    /\ unforced_builds' = IF force_refresh[t] THEN unforced_builds
                          ELSE unforced_builds + 1
    /\ pc' = [pc EXCEPT ![t] = "store"]
    /\ UNCHANGED <<parquet_file, csv_file, data_cache, force_refresh, calls,
                   response>>
    /\ UNCHANGED drillVars

\* app.py:293-299: publish the result in the global and return a copy
StoreCache(t) ==
    /\ pc[t] = "store"
    /\ data_cache' = result[t]
    /\ pc' = [pc EXCEPT ![t] = "idle"]
    /\ UNCHANGED <<parquet_file, csv_file, force_refresh, result, calls,
                   source_reads, unforced_builds, response>>
    /\ UNCHANGED drillVars

InitFiles ==
    /\ parquet_file \in {NULL} \cup FileContents
    /\ csv_file \in {NULL} \cup [rows : FileRows, date_dtype : {"datetime64"}]

InitThreads ==
    /\ pc = [t \in Threads |-> "idle"]
    /\ force_refresh = [t \in Threads |-> FALSE]
    /\ result = [t \in Threads |-> NULL]
    /\ calls = [t \in Threads |-> 0]

InitDrill ==
    /\ drill_level_store = "category"
    /\ selected_category_store = NoValue
    /\ click_reset_counter = 0
    /\ drill_back_btn_style = "none"
    /\ bar_chart_subtitle = [text |-> "Click on a category to drill down",
                             category |-> NoValue]
    /\ clickData = NULL
    /\ hour_range_slider = <<0, 24>>
    /\ triggered = "not yet called"

InitLoad ==
    /\ InitFiles
    /\ InitThreads
    /\ InitDrill
    /\ data_cache = NULL
    /\ source_reads = 0
    /\ unforced_builds = 0
    /\ response = NULL

NextLoad ==
    \/ \E t \in Threads, force \in BOOLEAN : Call(t, force)
    \/ \E t \in Threads : CheckCache(t)
    \/ \E t \in Threads : ReadFiles(t)
    \/ \E t \in Threads : StoreCache(t)

SpecLoad == InitLoad /\ [][NextLoad]_vars

\* C1: concurrent first calls of load_all_data build the store at most
\* once; no two callers without force_refresh both pass the empty-cache check
\* and each read the data source.
C1_BuiltAtMostOnce == unforced_builds <= 1

(***************************************************************************)
(* SpecDrill: the drill-down state machine (app.py:1683-1738)              *)
(***************************************************************************)
Categories == {"PERSON", "PROPERTY", "SOCIETY"}

\* values bar-crime-types.clickData can take: None, a dict without 'points',
\* or a click on a bar whose x is a category, is empty, or is missing
ClickValues ==
    {NULL, [curveNumber |-> 0]}
      \cup {[points |-> <<[x |-> c]>>] : c \in Categories \cup {"", NoValue}}

OverviewSubtitle ==
    [text |-> "Click on a category to drill down", category |-> NoValue]

DrillSubtitle(c) ==
    [text |-> "Showing sub-categories - Click Back to return to overview",
     category |-> c]

\* (no_update, no_update, no_update, no_update, no_update)
NoUpdate ==
    [update |-> FALSE, level |-> NoValue, style |-> NoValue,
     subtitle |-> OverviewSubtitle, category |-> NoValue, counter |-> 0]

Outputs(level, style, subtitle, category, counter) ==
    [update |-> TRUE, level |-> level, style |-> style, subtitle |-> subtitle,
     category |-> category, counter |-> counter]

\* update_drill_level without the `if clicked_category` test of app.py:1727
update_drill_level_any_click(trigger_id, click_data, current_level, current_category, reset_counter) ==
    IF trigger_id = ""
    THEN Outputs("category", "none", OverviewSubtitle, NoValue, reset_counter)
    ELSE IF trigger_id = "drill-back-btn"
    THEN Outputs("category", "none", OverviewSubtitle, NoValue, reset_counter + 1)
    ELSE IF trigger_id = "bar-crime-types"
    THEN IF click_data = NULL \/ "points" \notin DOMAIN click_data
         THEN NoUpdate
         ELSE IF current_level = "category"
         THEN Outputs("subcategory", "inline-block",
                      DrillSubtitle(click_data.points[1].x),
                      click_data.points[1].x, reset_counter)
         ELSE NoUpdate
    ELSE NoUpdate

\* update_drill_level that drills again from the subcategory level
update_drill_level_redrill(trigger_id, click_data, current_level, current_category, reset_counter) ==
    IF trigger_id = ""
    THEN Outputs("category", "none", OverviewSubtitle, NoValue, reset_counter)
    ELSE IF trigger_id = "drill-back-btn"
    THEN Outputs("category", "none", OverviewSubtitle, NoValue, reset_counter + 1)
    ELSE IF trigger_id = "bar-crime-types"
    THEN IF click_data = NULL \/ "points" \notin DOMAIN click_data
         THEN NoUpdate
         ELSE IF click_data.points[1].x \notin {"", NoValue}
         THEN Outputs("subcategory", "inline-block",
                      DrillSubtitle(click_data.points[1].x),
                      click_data.points[1].x, reset_counter)
         ELSE NoUpdate
    ELSE NoUpdate

\* update_drill_level whose back branch leaves the selected category in place
update_drill_level_back_keeps_category(trigger_id, click_data, current_level, current_category, reset_counter) ==
    IF trigger_id = ""
    THEN Outputs("category", "none", OverviewSubtitle, NoValue, reset_counter)
    ELSE IF trigger_id = "drill-back-btn"
    THEN Outputs("category", "none", OverviewSubtitle, current_category, reset_counter + 1)
    ELSE IF trigger_id = "bar-crime-types"
    THEN IF click_data = NULL \/ "points" \notin DOMAIN click_data
         THEN NoUpdate
         ELSE IF current_level = "category"
         THEN IF click_data.points[1].x \notin {"", NoValue}
              THEN Outputs("subcategory", "inline-block",
                           DrillSubtitle(click_data.points[1].x),
                           click_data.points[1].x, reset_counter)
              ELSE NoUpdate
         ELSE NoUpdate
    ELSE NoUpdate

\* app.py:1696-1738.  trigger_id is "" when callback_context.triggered is
\* empty (the initial call).
update_drill_level(trigger_id, click_data, current_level, current_category, reset_counter) ==
    IF trigger_id = ""
    THEN Outputs("category", "none", OverviewSubtitle, NoValue, reset_counter)
    ELSE IF trigger_id = "drill-back-btn"
    THEN Outputs("category", "none", OverviewSubtitle, NoValue, reset_counter + 1)
    ELSE IF trigger_id = "bar-crime-types"
    THEN IF click_data = NULL \/ "points" \notin DOMAIN click_data
         THEN NoUpdate
         ELSE IF current_level = "category"
         THEN IF click_data.points[1].x \notin {"", NoValue}
              THEN Outputs("subcategory", "inline-block",
                           DrillSubtitle(click_data.points[1].x),
                           click_data.points[1].x, reset_counter)
              ELSE NoUpdate
         ELSE NoUpdate
    ELSE NoUpdate

\* Dash writes the outputs that are not no_update back to the components
ApplyDrillOutputs(out) ==
    IF out.update
    THEN /\ drill_level_store' = out.level
         /\ drill_back_btn_style' = out.style
         /\ bar_chart_subtitle' = out.subtitle
         /\ selected_category_store' = out.category
         /\ click_reset_counter' = out.counter
    ELSE UNCHANGED <<drill_level_store, drill_back_btn_style, bar_chart_subtitle,
                     selected_category_store, click_reset_counter>>

\* page load: prevent_initial_call=False runs the callback with no trigger
InitialCall ==
    /\ triggered = "not yet called"
    /\ triggered' = ""
    /\ ApplyDrillOutputs(update_drill_level("", clickData, drill_level_store,
                             selected_category_store, click_reset_counter))
    /\ UNCHANGED clickData
    /\ UNCHANGED <<loadVars, response, hour_range_slider>>

\* the user clicks the chart: clickData is set and triggers the callback
ChartClick(click_data) ==
    /\ triggered # "not yet called"
    /\ clickData' = click_data
    /\ triggered' = "bar-crime-types"
    /\ ApplyDrillOutputs(update_drill_level("bar-crime-types", click_data,
                             drill_level_store, selected_category_store,
                             click_reset_counter))
    /\ UNCHANGED <<loadVars, response, hour_range_slider>>

\* the user presses the back button: n_clicks triggers the callback
BackClick ==
    /\ triggered # "not yet called"
    /\ click_reset_counter < MaxResets
    /\ triggered' = "drill-back-btn"
    /\ ApplyDrillOutputs(update_drill_level("drill-back-btn", clickData,
                             drill_level_store, selected_category_store,
                             click_reset_counter))
    /\ UNCHANGED clickData
    /\ UNCHANGED <<loadVars, response, hour_range_slider>>

InitNoFiles ==
    /\ parquet_file = NULL
    /\ csv_file = NULL

InitDrillSpec ==
    /\ InitNoFiles
    /\ InitThreads
    /\ InitDrill
    /\ data_cache = NULL
    /\ source_reads = 0
    /\ unforced_builds = 0
    /\ response = NULL

NextDrill ==
    \/ InitialCall
    \/ \E click_data \in ClickValues : ChartClick(click_data)
    \/ BackClick

SpecDrill == InitDrillSpec /\ [][NextDrill]_vars

\* the click of the last call carried a clicked category
ClickedCategory(cd) ==
    /\ cd # NULL
    /\ "points" \in DOMAIN cd
    /\ cd.points[1].x \in Categories

\* C3: the drill level moves category -> subcategory only on a chart click
\* that carries a clicked category while the level is category, and
\* subcategory -> category only on the back button; no other event changes
\* the level and the level is never anything but these two.
C3_DrillTransitions ==
    [][ /\ drill_level_store' \in {"category", "subcategory"}
        /\ (drill_level_store' # drill_level_store) =>
              \/ /\ drill_level_store = "category"
                 /\ drill_level_store' = "subcategory"
                 /\ triggered' = "bar-crime-types"
                 /\ ClickedCategory(clickData')
              \/ /\ drill_level_store = "subcategory"
                 /\ drill_level_store' = "category"
                 /\ triggered' = "drill-back-btn" ]_vars

\* both transitions have been taken: drilled down, then back
C3_Witness ==
    /\ drill_level_store = "category"
    /\ triggered = "drill-back-btn"
    /\ click_reset_counter > 0
    /\ ClickedCategory(clickData)

\* C4: while the level is subcategory a chart click is ignored: level,
\* selected category, back-button style, subtitle and reset counter stay.
C4_ClickIgnoredAtSubcategory ==
    [][ (drill_level_store = "subcategory" /\ triggered' = "bar-crime-types") =>
          UNCHANGED <<drill_level_store, selected_category_store,
                      drill_back_btn_style, bar_chart_subtitle,
                      click_reset_counter>> ]_vars

\* a click on another category arrived at subcategory level and was ignored
C4_Witness ==
    /\ drill_level_store = "subcategory"
    /\ triggered = "bar-crime-types"
    /\ ClickedCategory(clickData)
    /\ clickData.points[1].x # selected_category_store

(***************************************************************************)
(* Spatial functions (app.py:313-365)                                      *)
(***************************************************************************)
Min(a, b) == IF a <= b THEN a ELSE b
Max(a, b) == IF a >= b THEN a ELSE b

SeqMin(xs) == CHOOSE m \in {xs[i] : i \in DOMAIN xs} : \A i \in DOMAIN xs : m <= xs[i]
SeqMax(xs) == CHOOSE m \in {xs[i] : i \in DOMAIN xs} : \A i \in DOMAIN xs : m >= xs[i]

\* app.py:313-321: (min_lat, max_lat, min_lon, max_lon) of the vertices, each
\* vertex a <<lon, lat>> pair.  min()/max() of an empty list raise ValueError:
\* callers test BBoxRaises first.
geojson_to_polygon_filter(coords) ==
    [min_lat |-> SeqMin([i \in DOMAIN coords |-> coords[i][2]]),
     max_lat |-> SeqMax([i \in DOMAIN coords |-> coords[i][2]]),
     min_lon |-> SeqMin([i \in DOMAIN coords |-> coords[i][1]]),
     max_lon |-> SeqMax([i \in DOMAIN coords |-> coords[i][1]])]

BBoxRaises(coords) == Len(coords) = 0

\* app.py:339-340: x <= (y - p1y) * (p2x - p1x) / (p2y - p1y) + p1x, evaluated
\* exactly by multiplying out the divisor (p1y # p2y where this is reached)
LeqXinters(x, y, p1x, p1y, p2x, p2y) ==
    IF p2y - p1y > 0
    THEN (x - p1x) * (p2y - p1y) <= (y - p1y) * (p2x - p1x)
    ELSE (x - p1x) * (p2y - p1y) >= (y - p1y) * (p2x - p1x)

\* app.py:335-341: the edge p1 -> p2 toggles `inside`
EdgeToggles_lower_end_included(x, y, p1x, p1y, p2x, p2y) ==
    /\ y >= Min(p1y, p2y)
    /\ y <= Max(p1y, p2y)
    /\ x <= Max(p1x, p2x)
    /\ (p1x = p2x \/ LeqXinters(x, y, p1x, p1y, p2x, p2y))

EdgeToggles(x, y, p1x, p1y, p2x, p2y) ==
    /\ y > Min(p1y, p2y)
    /\ y <= Max(p1y, p2y)
    /\ x <= Max(p1x, p2x)
    /\ (p1x = p2x \/ LeqXinters(x, y, p1x, p1y, p2x, p2y))

\* app.py:333-342: the loop over i = 1..n; edge i runs from vertex i-1 to
\* vertex i % n (0-based), here from coords[i] to coords[(i % n) + 1]
RECURSIVE RayCast(_, _, _, _, _)
RayCast(x, y, coords, i, inside) ==
    IF i > Len(coords) THEN inside
    ELSE RayCast(x, y, coords, i + 1,
                 IF EdgeToggles(x, y, coords[i][1], coords[i][2],
                                coords[(i % Len(coords)) + 1][1],
                                coords[(i % Len(coords)) + 1][2])
                 THEN ~inside ELSE inside)

\* app.py:323-344
point_in_polygon(lat, lon, polygon_coords) ==
    RayCast(lon, lat, polygon_coords, 1, FALSE)

\* app.py:346-365 evaluated at the coordinates of the model's records, in
\* millimetres (the function's values at these points, rounded)
HaversineTable ==
    [p \in {1, 2, 3, 4} |->
       [q \in {1, 2, 3, 4} |->
          CASE {p, q} = {1, 2} -> 4983649
            [] {p, q} = {1, 3} -> 1341085
            [] {p, q} = {1, 4} -> 749647
            [] {p, q} = {2, 3} -> 6316418
            [] {p, q} = {2, 4} -> 5363538
            [] {p, q} = {3, 4} -> 1111949
            [] OTHER -> 0]]

\* the model record at a coordinate
PointId(lat, lon) ==
    CHOOSE i \in {1, 2, 3, 4} :
        \E r \in Pool : r.id = i /\ r.latitude = lat /\ r.longitude = lon

haversine_distance(lat1, lon1, lat2, lon2) ==
    HaversineTable[PointId(lat1, lon1)][PointId(lat2, lon2)]

(***************************************************************************)
(* Query inputs                                                            *)
(***************************************************************************)
\* circle-radius-input empty (None)
NoRadius == NaN
\* app.py:2090, 2211: `circle_radius if circle_radius else 805`, in mm
DefaultRadius == 805000

AllAreas == {"BALLARD", "FREMONT"}

DateOptions ==
    {NULL} \cup {[start_date |-> d[1], end_date |-> d[2]] :
                    d \in {<<1, 1>>, <<1, 2>>, <<1, 153>>, <<2, 153>>}}

\* hour-slider data: [0, 24] is what sync_hour_range yields by default
\* the two-element list [lo, hi]
HourRange(lo, hi) == [lo |-> lo, hi |-> hi]

HourOptions ==
    {HourRange(0, 24), NULL, HourRange(9, 11), HourRange(10, 10),
     HourRange(0, 0), HourRange(24, 24)}

\* category-filter value; None behaves as the empty list in both callbacks
CategoryOptions == {{}, {"PERSON"}, {"PERSON", "PROPERTY"}, Categories}

NeighborhoodOptions == {{}, {"BALLARD"}, AllAreas}

\* vertices are <<lon, lat>>
Triangle == << <<-122335, 47605>>, <<-122325, 47605>>, <<-122330, 47620>> >>
Rectangle == << <<-122345, 47595>>, <<-122325, 47595>>,
                <<-122325, 47615>>, <<-122345, 47615>> >>
OneVertex == << <<-122330, 47610>> >>
TwoVertices == << <<-122345, 47595>>, <<-122325, 47615>> >>

PolygonOptions ==
    {NULL} \cup {[coordinates |-> c] :
                    c \in {Triangle, Rectangle, <<>>, OneVertex, TwoVertices}}

RadiusOptions ==
    {NoRadius, 0, -5000, HaversineTable[1][3], HaversineTable[1][3] - 1}

CircleOptions ==
    {[coords |-> NULL, radius |-> NoRadius]}
      \cup {[coords |-> [lat |-> R1.latitude, lon |-> R1.longitude], radius |-> r] :
               r \in RadiusOptions}

\* number of optional predicates a request sets away from the default
ActiveCount(date, hour, nbhd, poly, circle) ==
    (IF date # NULL THEN 1 ELSE 0) + (IF hour # HourRange(0, 24) THEN 1 ELSE 0)
      + (IF nbhd # {} THEN 1 ELSE 0) + (IF poly # NULL THEN 1 ELSE 0)
      + (IF circle.coords # NULL THEN 1 ELSE 0)

\* the inputs of update_table and update_map_points
FilterSpecs ==
    {[date_data |-> t[1], hour_value |-> t[2], category_value |-> t[3],
      neighborhood_value |-> t[4], poly_geojson |-> t[5],
      circle_coords |-> t[6].coords, circle_radius |-> t[6].radius] :
        t \in {u \in DateOptions \X HourOptions \X CategoryOptions
                      \X NeighborhoodOptions \X PolygonOptions \X CircleOptions :
                  ActiveCount(u[1], u[2], u[4], u[5], u[6]) <= MaxActive}}

(***************************************************************************)
(* load_all_data as one call (the query callbacks of SpecQuery run one at  *)
(* a time)                                                                 *)
(***************************************************************************)
\* app.py:244-299: the frame load_all_data() returns
LoadedFrame(cache, pq, csv) ==
    IF CacheHit(cache, FALSE) THEN cache ELSE ReadSource(pq, csv)

\* app.py:247 returns the cached frame itself, app.py:299 a copy of it
ReturnsCacheItself(cache) == CacheHit(cache, FALSE)

\* df['date'] = pd.to_datetime(df['date']): the column becomes datetime64
to_datetime(frame) == [frame EXCEPT !.date_dtype = "datetime64"]

\* the module global after a callback that called load_all_data() and then,
\* when `converts`, assigned df['date'] on the frame it got back
CacheAfter(cache, pq, csv, converts) ==
    IF ReturnsCacheItself(cache) /\ converts
    THEN to_datetime(cache)
    ELSE LoadedFrame(cache, pq, csv)

\* one call of load_all_data() inside a callback
CallLoadAllData(converts) ==
    /\ data_cache' = CacheAfter(data_cache, parquet_file, csv_file, converts)
    /\ source_reads' = IF CacheHit(data_cache, FALSE) THEN source_reads
                       ELSE source_reads + 1
    /\ unforced_builds' = IF CacheHit(data_cache, FALSE) THEN unforced_builds
                          ELSE unforced_builds + 1

(***************************************************************************)
(* Filter stages                                                           *)
(***************************************************************************)
\* `if start_date and end_date`
DateActive(date_data) == date_data # NULL

\* the date filter with start and end swapped
DateStage_swapped(rows, date_data) ==
    IF DateActive(date_data)
    THEN {r \in rows : r.date >= date_data.end_date /\ r.date <= date_data.start_date}
    ELSE rows

\* (df['date'] >= start) & (df['date'] <= end)
DateStage(rows, date_data) ==
    IF DateActive(date_data)
    THEN {r \in rows : r.date >= date_data.start_date /\ r.date <= date_data.end_date}
    ELSE rows

\* df['latitude'].notna() & df['longitude'].notna()
CoordStage(rows) == {r \in rows : r.latitude # NaN /\ r.longitude # NaN}

\* the hour filter with an exclusive end hour
HourStage_exclusive_end(rows, hour_range) ==
    IF ~(hour_range.lo = 0 /\ hour_range.hi = 24)
    THEN {r \in rows : r.hour >= hour_range.lo /\ r.hour < Min(hour_range.hi, 23)}
    ELSE rows

\* app.py:2060-2064, 2196-2200: end hour capped at 23, [0, 24] not filtered
HourStage(rows, hour_range) ==
    IF ~(hour_range.lo = 0 /\ hour_range.hi = 24)
    THEN {r \in rows : r.hour >= hour_range.lo /\ r.hour <= Min(hour_range.hi, 23)}
    ELSE rows

\* df[...].isin(selected_categories)
CategoryStage(rows, cats) == {r \in rows : r.crime_against_category \in cats}

\* app.py:2074-2080, 2206-2207
NeighborhoodStage(rows, nbhd) ==
    IF nbhd # {} THEN {r \in rows : r.area \in nbhd} ELSE rows

\* `circle_radius if circle_radius else 805`
Radius(circle_radius) ==
    IF circle_radius = NoRadius \/ circle_radius = 0 THEN DefaultRadius
    ELSE circle_radius

\* the circle filter with a strict comparison
CircleStage_strict(rows, circle_coords, circle_radius) ==
    IF circle_coords # NULL
    THEN {r \in rows :
            /\ r.latitude # NaN
            /\ haversine_distance(circle_coords.lat, circle_coords.lon,
                                  r.latitude, r.longitude) < Radius(circle_radius)}
    ELSE rows

\* app.py:2084-2097, 2210-2212
CircleStage(rows, circle_coords, circle_radius) ==
    IF circle_coords # NULL
    THEN {r \in rows :
            /\ r.latitude # NaN
            /\ haversine_distance(circle_coords.lat, circle_coords.lon,
                                  r.latitude, r.longitude) <= Radius(circle_radius)}
    ELSE rows

\* app.py:2039-2049: bounding box, then the ray-casting test
PolygonStage(rows, coords) ==
    {r \in rows :
       /\ r.latitude >= geojson_to_polygon_filter(coords).min_lat
       /\ r.latitude <= geojson_to_polygon_filter(coords).max_lat
       /\ r.longitude >= geojson_to_polygon_filter(coords).min_lon
       /\ r.longitude <= geojson_to_polygon_filter(coords).max_lon
       /\ point_in_polygon(r.latitude, r.longitude, coords)}

\* app.py:2020-2057: the try block of update_table; an exception (min() of an
\* empty vertex list) replaces df by an empty frame
TableTryBlock(f, frame) ==
    IF f.poly_geojson # NULL /\ CoordStage(DateStage(frame.rows, f.date_data)) # {}
    THEN IF BBoxRaises(f.poly_geojson.coordinates) THEN {}
         ELSE PolygonStage(CoordStage(DateStage(frame.rows, f.date_data)),
                           f.poly_geojson.coordinates)
    ELSE CoordStage(DateStage(frame.rows, f.date_data))

\* app.py:2003: hour_range of update_table
TableHourRange(hour_value) == IF hour_value # NULL THEN hour_value ELSE HourRange(0, 23)

\* app.py:2019-2101: df_filtered of update_table for a non-empty category list
TableDfFiltered(f, frame) ==
    CircleStage(
      NeighborhoodStage(
        CategoryStage(
          HourStage(TableTryBlock(f, frame), TableHourRange(f.hour_value)),
          f.category_value),
        f.neighborhood_value),
      f.circle_coords, f.circle_radius)

\* app.py:2193: df['date'] >= start_dt on a column of strings raises TypeError
MapDateRaises(f, frame) == DateActive(f.date_data) /\ frame.date_dtype = "object"

\* app.py:2189-2215: the filters of update_map_points (poly_geojson is not
\* used)
MapDfFiltered(f, frame) ==
    CoordStage(
      CircleStage(
        NeighborhoodStage(
          CategoryStage(
            IF f.hour_value # NULL
            THEN HourStage(DateStage(frame.rows, f.date_data), f.hour_value)
            ELSE DateStage(frame.rows, f.date_data),
            f.category_value),
          f.neighborhood_value),
        f.circle_coords, f.circle_radius))

\* app.py:174: datetime = date + ' ' + Offense Time
DatetimeKey(r) == r.date * 24 + r.hour

\* sort_values(key, ascending=False).head(cap): the cap most recent rows, keys
\* the sort key of each row; the order among rows of equal key is left to the
\* sort
SortedHead(rows, keys, cap) ==
    {T \in SUBSET rows :
       /\ Cardinality(T) = Min(cap, Cardinality(rows))
       /\ \A t \in T : \A u \in rows \ T : keys[t] >= keys[u]}

\* app.py:2113-2120: sort_values('datetime', ascending=False), head(500)
TableHead(rows) == SortedHead(rows, [r \in rows |-> DatetimeKey(r)], TableCap)

\* app.py:2222: sort_values('date', ascending=False).head(5000)
MapHead(rows) == SortedHead(rows, [r \in rows |-> r.date], MapCap)

(***************************************************************************)
(* SpecQuery: the query callbacks, one request at a time                   *)
(***************************************************************************)
\* app.py:1999-2145
update_table(f) ==
    /\ response = NULL
    /\ IF f.category_value = {}
       THEN /\ response' = [callback |-> "update_table", args |-> f,
                            status |-> "No crime types selected",
                            df_filtered |-> {}, rows |-> {}]
            /\ UNCHANGED <<data_cache, source_reads, unforced_builds>>
       ELSE /\ CallLoadAllData(DateActive(f.date_data))
            /\ \E table \in TableHead(
                     TableDfFiltered(f, LoadedFrame(data_cache, parquet_file, csv_file))) :
                 response' = [callback |-> "update_table", args |-> f,
                              status |-> "ok",
                              df_filtered |-> TableDfFiltered(f,
                                  LoadedFrame(data_cache, parquet_file, csv_file)),
                              rows |-> table]
    /\ UNCHANGED <<parquet_file, csv_file, pc, force_refresh, result, calls>>
    /\ UNCHANGED drillVars

\* update_map_points that takes an empty category list as "no category
\* filter", the way it takes an empty neighborhood list
MapResult_all_when_empty(f, frame) ==
    IF frame.rows = {}
    THEN [status |-> "No data", df_filtered |-> {}]
    ELSE IF MapDateRaises(f, frame)
    THEN [status |-> "Error", df_filtered |-> {}]
    ELSE [status |-> "ok",
          df_filtered |-> MapDfFiltered(
              [f EXCEPT !.category_value = IF @ = {} THEN Categories ELSE @], frame)]

\* app.py:2179-2222, 2334-2336: the status and the points of the map
MapResult(f, frame) ==
    IF f.category_value = {}
    THEN [status |-> "Select at least one crime type", df_filtered |-> {}]
    ELSE IF frame.rows = {}
    THEN [status |-> "No data", df_filtered |-> {}]
    ELSE IF MapDateRaises(f, frame)
    THEN [status |-> "Error", df_filtered |-> {}]
    ELSE IF MapDfFiltered(f, frame) = {}
    THEN [status |-> "No data matches filters", df_filtered |-> {}]
    ELSE [status |-> "ok", df_filtered |-> MapDfFiltered(f, frame)]

\* app.py:2161-2336; df = df.copy() (2187) keeps the cached frame untouched
update_map_points(f) ==
    /\ response = NULL
    /\ IF f.category_value = {}
       THEN UNCHANGED <<data_cache, source_reads, unforced_builds>>
       ELSE CallLoadAllData(FALSE)
    /\ \E points \in MapHead(
             MapResult(f, LoadedFrame(data_cache, parquet_file, csv_file)).df_filtered) :
         response' = [callback |-> "update_map_points", args |-> f,
                      status |-> MapResult(f,
                          LoadedFrame(data_cache, parquet_file, csv_file)).status,
                      df_filtered |-> MapResult(f,
                          LoadedFrame(data_cache, parquet_file, csv_file)).df_filtered,
                      rows |-> points]
    /\ UNCHANGED <<parquet_file, csv_file, pc, force_refresh, result, calls>>
    /\ UNCHANGED drillVars

\* app.py:1207-1228
display_date_info(date_data) ==
    /\ response = NULL
    /\ IF ~DateActive(date_data)
       THEN /\ response' = [callback |-> "display_date_info", args |-> date_data,
                            status |-> "Loading...",
                            filtered_count |-> 0, total_count |-> 0]
            /\ UNCHANGED <<data_cache, source_reads, unforced_builds>>
       ELSE /\ CallLoadAllData(TRUE)
            /\ response' =
                 LET df == LoadedFrame(data_cache, parquet_file, csv_file)
                 IN [callback |-> "display_date_info", args |-> date_data,
                     \* filtered_count / total_count raises on an empty frame
                     status |-> IF df.rows = {} THEN "Error" ELSE "ok",
                     filtered_count |-> Cardinality(DateStage(df.rows, date_data)),
                     total_count |-> Cardinality(df.rows)]
    /\ UNCHANGED <<parquet_file, csv_file, pc, force_refresh, result, calls>>
    /\ UNCHANGED drillVars

\* the number of rows of a category
CountCategory(rows, c) == Cardinality({r \in rows : r.crime_against_category = c})

\* update_kpis that counts the categories on the frame load_all_data returned
\* instead of the date-filtered df_kpi
update_kpis_counts_unfiltered(date_data) ==
    /\ response = NULL
    /\ CallLoadAllData(DateActive(date_data)
                         /\ LoadedFrame(data_cache, parquet_file, csv_file).rows # {})
    /\ response' =
         LET df == LoadedFrame(data_cache, parquet_file, csv_file).rows
             df_kpi == DateStage(df, date_data)
         IN [callback |-> "update_kpis", args |-> date_data, status |-> "ok",
             total |-> Cardinality(df_kpi),
             person |-> CountCategory(df, "PERSON"),
             property |-> CountCategory(df, "PROPERTY"),
             society |-> CountCategory(df, "SOCIETY")]
    /\ UNCHANGED <<parquet_file, csv_file, pc, force_refresh, result, calls>>
    /\ UNCHANGED drillVars

\* app.py:1916-1985: the conversion and the date filter run only on a
\* non-empty frame
update_kpis(date_data) ==
    /\ response = NULL
    /\ CallLoadAllData(DateActive(date_data)
                         /\ LoadedFrame(data_cache, parquet_file, csv_file).rows # {})
    /\ response' =
         LET df_kpi == DateStage(LoadedFrame(data_cache, parquet_file, csv_file).rows,
                                 date_data)
         IN [callback |-> "update_kpis", args |-> date_data, status |-> "ok",
             total |-> Cardinality(df_kpi),
             person |-> CountCategory(df_kpi, "PERSON"),
             property |-> CountCategory(df_kpi, "PROPERTY"),
             society |-> CountCategory(df_kpi, "SOCIETY")]
    /\ UNCHANGED <<parquet_file, csv_file, pc, force_refresh, result, calls>>
    /\ UNCHANGED drillVars

(***************************************************************************)
(* dashboard.py: the DuckDB dashboard                                      *)
(***************************************************************************)
ViolentKeywords == {"ASSAULT", "ROBBERY", "HOMICIDE", "RAPE", "SEX OFFENSE"}
PropertyKeywords == {"THEFT", "BURGLARY", "CAR PROWL", "SHOPLIFTING",
                     "MOTOR VEHICLE THEFT", "ARSON", "VANDALISM"}

\* `k in s` for the offense texts of the model: the keywords that occur in s
KeywordsIn(s) ==
    CASE s = "AGGRAVATED ASSAULT" -> {"ASSAULT"}
      [] s = "MOTOR VEHICLE THEFT" -> {"THEFT", "MOTOR VEHICLE THEFT"}
      [] s = "ROBBERY AND THEFT" -> {"ROBBERY", "THEFT"}
      [] OTHER -> {}

\* dashboard.py:730-732
is_violent(s) == KeywordsIn(s) \cap ViolentKeywords # {}
\* dashboard.py:733-735
is_property(s) == KeywordsIn(s) \cap PropertyKeywords # {}

\* dashboard.py:737-742
categorize_offense(s) ==
    IF is_violent(s) THEN "Violent"
    ELSE IF is_property(s) THEN "Property"
    ELSE "Other"

\* rows of the DuckDB table crimes
D1 == [id |-> 1, date |-> 1, hour |-> 10, offense |-> "AGGRAVATED ASSAULT",
       precinct |-> "NORTH", sector |-> "B", latitude |-> 47610, longitude |-> -122330]
D2 == [id |-> 2, date |-> 1, hour |-> 3, offense |-> "MOTOR VEHICLE THEFT",
       precinct |-> "WEST", sector |-> "K", latitude |-> 47600, longitude |-> -122340]
D3 == [id |-> 3, date |-> 1, hour |-> 10, offense |-> "TRESPASS",
       precinct |-> "NORTH", sector |-> "B", latitude |-> 47610, longitude |-> -122340]
D4 == [id |-> 4, date |-> 2, hour |-> 23, offense |-> "ROBBERY AND THEFT",
       precinct |-> "WEST", sector |-> "K", latitude |-> 47650, longitude |-> -122300]
D5 == [id |-> 5, date |-> 1, hour |-> 0, offense |-> "TRESPASS",
       precinct |-> "WEST", sector |-> "K", latitude |-> NaN, longitude |-> NaN]

crimes == {D1, D2, D3, D4, D5}

DashCategories == {"Violent", "Property", "Other"}

\* dashboard.py:265-274: the rows of the day that have coordinates
day_overview(day) ==
    {r \in crimes : r.date = day /\ r.latitude # NaN /\ r.longitude # NaN}

\* dashboard.py:246-263: the rows of the day inside the polygon (ST_Within);
\* for the polygons of the model no record lies on an edge, where the
\* ray-casting test and ST_Within agree
query_points_in_polygon(day, coords) ==
    {r \in day_overview(day) : point_in_polygon(r.latitude, r.longitude, coords)}

\* the category-filter value as a list
CategoryList(cats) == [list |-> cats]

\* dashboard.py:679-745: df_filtered of update_by_polygon
DashDfFiltered(a) ==
    IF a.selected_date = 0 THEN {}
    ELSE {r \in (IF a.poly_geojson # NULL
                 THEN query_points_in_polygon(a.selected_date,
                                              a.poly_geojson.coordinates)
                 ELSE day_overview(a.selected_date)) :
            /\ (IF a.hour_value = NaN THEN 24 ELSE a.hour_value) # 24 =>
                  r.hour = a.hour_value
            /\ a.precinct_value # {} => r.precinct \in a.precinct_value
            /\ a.sector_value # {} => r.sector \in a.sector_value
            /\ categorize_offense(r.offense)
                 \in (IF a.category_value = NULL THEN DashCategories
                      ELSE a.category_value.list)}

\* the inputs of update_by_polygon: date 0 is no date, hour NaN is no value
DashArgs ==
    [selected_date : {0, 1, 2},
     poly_geojson : {NULL, [coordinates |-> Triangle], [coordinates |-> Rectangle]},
     hour_value : {NaN, 24, 0, 10},
     category_value : {NULL, CategoryList({}), CategoryList({"Violent"}),
                       CategoryList({"Violent", "Other"})},
     precinct_value : {{}, {"NORTH"}},
     sector_value : {{}, {"B", "K"}}]

\* dashboard.py:679-753 (the KPI counts; the table shows df_filtered)
update_by_polygon(a) ==
    /\ response = NULL
    /\ response' =
         [callback |-> "update_by_polygon", args |-> a, status |-> "ok",
          df_filtered |-> DashDfFiltered(a),
          total |-> Cardinality(DashDfFiltered(a)),
          violent |-> Cardinality({r \in DashDfFiltered(a) :
                                     categorize_offense(r.offense) = "Violent"}),
          property |-> Cardinality({r \in DashDfFiltered(a) :
                                      categorize_offense(r.offense) = "Property"}),
          other |-> Cardinality({r \in DashDfFiltered(a) :
                                   categorize_offense(r.offense) = "Other"})]
    /\ UNCHANGED loadVars
    /\ UNCHANGED drillVars

\* ingeest_duckdb.py:134-158: the row of the view kpi_by_date for a date that
\* has rows in crimes: violent and property are two independent SUM(CASE
\* WHEN ... LIKE ...), other is COUNT(*) minus both
kpi_by_date(date) ==
    LET rows == {r \in crimes : r.date = date}
        violent == Cardinality({r \in rows : KeywordsIn(r.offense) \cap ViolentKeywords # {}})
        property == Cardinality({r \in rows : KeywordsIn(r.offense) \cap PropertyKeywords # {}})
    IN [total |-> Cardinality(rows), violent |-> violent, property |-> property,
        other |-> Cardinality(rows) - (violent + property)]

\* dashboard.py:138-166: the same SELECT with WHERE date = ?; the SUMs over no
\* row are NULL and `row[i] or 0` makes them 0
get_kpis(day) ==
    /\ response = NULL
    /\ response' =
         [callback |-> "get_kpis", args |-> day, status |-> "ok",
          kpis |-> IF {r \in crimes : r.date = day} = {}
                   THEN [total |-> 0, violent |-> 0, property |-> 0, other |-> 0]
                   ELSE kpi_by_date(day)]
    /\ UNCHANGED loadVars
    /\ UNCHANGED drillVars

\* the browser receives the response; the next request can be sent
Deliver ==
    /\ response # NULL
    /\ response' = NULL
    /\ UNCHANGED loadVars
    /\ UNCHANGED drillVars

\* the data files the server is started with
QueryFiles ==
    { <<NULL, NULL>>,
      <<NULL, [rows |-> {R1, R2, R3}, date_dtype |-> "datetime64"]>>,
      <<NULL, [rows |-> Pool, date_dtype |-> "datetime64"]>>,
      <<[rows |-> Pool, date_dtype |-> "datetime64"], NULL>>,
      <<[rows |-> Pool, date_dtype |-> "object"], NULL>> }

InitQuery ==
    /\ \E files \in QueryFiles : parquet_file = files[1] /\ csv_file = files[2]
    /\ InitThreads
    /\ InitDrill
    /\ data_cache = NULL
    /\ source_reads = 0
    /\ unforced_builds = 0
    /\ response = NULL

NextQuery ==
    \/ \E f \in FilterSpecs : update_table(f)
    \/ \E f \in FilterSpecs : update_map_points(f)
    \/ \E date_data \in DateOptions : display_date_info(date_data)
    \/ \E date_data \in DateOptions : update_kpis(date_data)
    \/ \E a \in DashArgs : update_by_polygon(a)
    \/ \E day \in {1, 2, 3} : get_kpis(day)
    \/ Deliver

SpecQuery == InitQuery /\ [][NextQuery]_vars

(***************************************************************************)
(* Properties of the query callbacks                                       *)
(***************************************************************************)
\* the frame the callbacks of the current state work on
Frame == LoadedFrame(data_cache, parquet_file, csv_file)

\* the records `callback` selects for the inputs f, before its display cap
QueryDf(callback, f) ==
    IF callback = "update_table"
    THEN IF f.category_value = {} THEN {} ELSE TableDfFiltered(f, Frame)
    ELSE MapResult(f, Frame).df_filtered

\* the rows `callback` can return for the inputs f, after its display cap
QueryRows(callback, f) ==
    IF callback = "update_table"
    THEN TableHead(QueryDf(callback, f))
    ELSE MapHead(QueryDf(callback, f))

IsQuery == response # NULL /\ response.callback \in {"update_table", "update_map_points"}

IsDashQuery == response # NULL /\ response.callback = "update_by_polygon"

\* the rows of a frame with the representation of their date field
StoreValues(frame) == {[row |-> r, date_dtype |-> frame.date_dtype] : r \in frame.rows}

\* C2: once load_all_data() has populated the cache no query callback changes
\* the cached store: its rows and their field values stay what the build
\* produced.
C2_CacheUnchanged ==
    data_cache # NULL =>
        StoreValues(data_cache) = StoreValues(ReadSource(parquet_file, csv_file))

\* polygon with at least 3 vertices, circle with a positive radius, date
\* column already datetime64
WellFormed(f) ==
    /\ f.poly_geojson # NULL => Len(f.poly_geojson.coordinates) >= 3
    /\ f.circle_coords # NULL => f.circle_radius > 0
    /\ Frame.date_dtype = "datetime64"

\* record r satisfies every active predicate of f
Matches(r, f) ==
    /\ f.date_data # NULL =>
          r.date >= f.date_data.start_date /\ r.date <= f.date_data.end_date
    /\ f.hour_value # NULL => r.hour >= f.hour_value.lo /\ r.hour <= f.hour_value.hi
    /\ r.crime_against_category \in f.category_value
    /\ f.neighborhood_value # {} => r.area \in f.neighborhood_value
    /\ f.poly_geojson # NULL =>
          point_in_polygon(r.latitude, r.longitude, f.poly_geojson.coordinates)
    /\ f.circle_coords # NULL =>
          haversine_distance(f.circle_coords.lat, f.circle_coords.lon,
                             r.latitude, r.longitude) <= f.circle_radius

\* dates [2024-01-01, 2024-01-02], hours [9, 11], categories {PERSON}
ScenarioFilter ==
    [date_data |-> [start_date |-> 1, end_date |-> 2],
     hour_value |-> HourRange(9, 11), category_value |-> {"PERSON"},
     neighborhood_value |-> {}, poly_geojson |-> NULL,
     circle_coords |-> NULL, circle_radius |-> NoRadius]

\* C5: a query returns exactly the records that satisfy every active
\* predicate of the filter (date, hour, category, neighborhood, polygon,
\* circle); for the scenario filter over R1, R2, R3 that is {R1, R3}.
C5_ExactlyMatching ==
    IsQuery =>
      /\ WellFormed(response.args) =>
            response.df_filtered = {r \in Frame.rows : Matches(r, response.args)}
      /\ (response.args = ScenarioFilter /\ Frame.rows = {R1, R2, R3}) =>
            response.df_filtered = {R1, R3}

\* C6: an empty category set returns no record whatever the store and the
\* other filters are, while an empty neighborhood set restricts nothing (it
\* selects what the set of all neighborhoods selects).
C6_EmptyCategories ==
    /\ IsQuery =>
      /\ response.args.category_value = {} =>
            response.df_filtered = {} /\ response.rows = {}
      /\ response.args.neighborhood_value = {} =>
            response.df_filtered =
              QueryDf(response.callback,
                      [response.args EXCEPT !.neighborhood_value = AllAreas])
    /\ (IsDashQuery /\ response.args.category_value = CategoryList({})) =>
          response.df_filtered = {} /\ response.total = 0

\* an empty category set was sent with filters that select records for the
\* full category set
C6_Witness ==
    /\ IsQuery
    /\ response.args.category_value = {}
    /\ response.args.neighborhood_value = {}
    /\ QueryDf(response.callback,
               [response.args EXCEPT !.category_value = Categories]) # {}

\* hours at and next to the hours of the model's records and the ends of
\* the slider
HourPoints == {0, 1, 3, 9, 10, 11, 23, 24}

AllHourRanges ==
    {HourRange(h[1], h[2]) : h \in {g \in HourPoints \X HourPoints : g[1] <= g[2]}}

\* C7: with the other filters fixed, hour range [0, 24] keeps the records of
\* every hour (no hour range selects a record it leaves out), and [h, h]
\* keeps exactly the records of hour h among them.
C7_HourRange ==
    /\ IsQuery =>
      /\ response.args.hour_value = HourRange(0, 24) =>
            \A hr \in AllHourRanges :
                QueryDf(response.callback,
                        [response.args EXCEPT !.hour_value = hr])
                  \subseteq response.df_filtered
      /\ (response.args.hour_value # NULL
            /\ response.args.hour_value.lo = response.args.hour_value.hi) =>
            response.df_filtered =
              {r \in QueryDf(response.callback,
                             [response.args EXCEPT !.hour_value = HourRange(0, 24)]) :
                  r.hour = response.args.hour_value.lo}
    /\ IsDashQuery =>
      /\ response.args.hour_value = 24 =>
            \A h \in 0..23 :
                DashDfFiltered([response.args EXCEPT !.hour_value = h])
                  \subseteq response.df_filtered
      /\ response.args.hour_value \in 0..23 =>
            response.df_filtered =
              {r \in DashDfFiltered([response.args EXCEPT !.hour_value = 24]) :
                  r.hour = response.args.hour_value}

\* [10, 10] kept the records of hour 10 and dropped one of another hour
C7_Witness ==
    /\ IsQuery
    /\ response.args.hour_value = HourRange(10, 10)
    /\ response.df_filtered # {}
    /\ \E r \in QueryDf(response.callback,
                        [response.args EXCEPT !.hour_value = HourRange(0, 24)]) :
          r.hour # 10

\* the date ranges that contain the range d
WiderRanges(d) ==
    {e \in DateOptions \ {NULL} :
        e.start_date <= d.start_date /\ d.end_date <= e.end_date}

\* C8 as stated: the records a query returns for [d1, d2] are among the
\* records it returns for every [e1, e2] that contains [d1, d2].
C8_ReturnedRowsMonotone ==
    (IsQuery /\ response.args.date_data # NULL) =>
        \A e \in WiderRanges(response.args.date_data) :
            \E wide \in QueryRows(response.callback,
                                  [response.args EXCEPT !.date_data = e]) :
                response.rows \subseteq wide

\* C8 amended: the records a query selects for [d1, d2] before its display
\* cap are among the records it selects for every [e1, e2] that contains
\* [d1, d2].
C8_FilteredSetMonotone ==
    (IsQuery /\ response.args.date_data # NULL) =>
        \A e \in WiderRanges(response.args.date_data) :
            response.df_filtered
              \subseteq QueryDf(response.callback,
                                [response.args EXCEPT !.date_data = e])

\* a narrow range selected records and a wider one selects strictly more
C8_Witness ==
    /\ IsQuery
    /\ response.args.date_data # NULL
    /\ response.df_filtered # {}
    /\ \E e \in WiderRanges(response.args.date_data) :
          QueryDf(response.callback, [response.args EXCEPT !.date_data = e])
            # response.df_filtered

\* C9: with a circle filter active a record is kept iff its great-circle
\* distance to the centre is at most the radius (the given one, or the
\* default when none is given); a record exactly at the radius is kept.
C9_CircleInclusive ==
    (/\ IsQuery
     /\ response.args.circle_coords # NULL
     /\ (response.args.circle_radius > 0 \/ response.args.circle_radius = NoRadius)) =>
        response.df_filtered =
          {r \in QueryDf(response.callback,
                         [response.args EXCEPT !.circle_coords = NULL]) :
              haversine_distance(response.args.circle_coords.lat,
                                 response.args.circle_coords.lon,
                                 r.latitude, r.longitude)
                <= (IF response.args.circle_radius = NoRadius THEN DefaultRadius
                    ELSE response.args.circle_radius)}

\* the radius equals the distance from the centre (R1) to R3, and R3 is kept
C9_Witness ==
    /\ IsQuery
    /\ response.args.circle_coords = [lat |-> R1.latitude, lon |-> R1.longitude]
    /\ response.args.circle_radius =
         haversine_distance(R1.latitude, R1.longitude, R3.latitude, R3.longitude)
    /\ R3 \in response.df_filtered

\* C10: a polygon with fewer than 3 vertices selects what the same query
\* without a polygon selects.
C10_DegeneratePolygonIgnored ==
    (/\ IsQuery
     /\ response.args.poly_geojson # NULL
     /\ Len(response.args.poly_geojson.coordinates) < 3) =>
        response.df_filtered =
          QueryDf(response.callback, [response.args EXCEPT !.poly_geojson = NULL])

\* C11: a circle whose radius is zero or negative is disabled: the query
\* selects what the same query without a circle selects.
C11_NonPositiveRadiusIgnored ==
    (/\ IsQuery
     /\ response.args.circle_coords # NULL
     /\ response.args.circle_radius # NoRadius
     /\ response.args.circle_radius <= 0) =>
        response.df_filtered =
          QueryDf(response.callback, [response.args EXCEPT !.circle_coords = NULL])

IsKpi == response # NULL /\ response.callback = "update_kpis"

\* the date-filtered set the KPI figures of the last update_kpis call cover
KpiFiltered == DateStage(Frame.rows, response.args)

\* C12: the per-category counts partition the total: PERSON + PROPERTY +
\* SOCIETY + the records of all other categories = the number of filtered
\* records (update_kpis), and Violent + Property + Other = total
\* (update_by_polygon).
C12_CountsPartitionTotal ==
    /\ IsKpi =>
         response.person + response.property + response.society
           + Cardinality({r \in KpiFiltered : r.crime_against_category \notin Categories})
           = response.total
    /\ IsDashQuery =>
         response.violent + response.property + response.other = response.total

\* KPI figures over a date range that leaves records out, with records of
\* each of the three categories and of another category
C12_Witness ==
    /\ IsKpi
    /\ response.args # NULL
    /\ response.total < Cardinality(Frame.rows)
    /\ response.person > 0 /\ response.property > 0 /\ response.society > 0
    /\ response.total > response.person + response.property + response.society

\* C14: the display sample never exceeds its cap and gives priority to
\* recency: every returned record has a timestamp at least as recent as every
\* filtered record that was left out.
C14_CapAndRecency ==
    IsQuery =>
      /\ Cardinality(response.rows)
           <= (IF response.callback = "update_table" THEN TableCap ELSE MapCap)
      /\ response.rows \subseteq response.df_filtered
      /\ \A t \in response.rows : \A u \in response.df_filtered \ response.rows :
           DatetimeKey(t) >= DatetimeKey(u)

\* the rows of the data file load_all_data reads the store from
SourceRows ==
    IF parquet_file # NULL /\ Usable(load_from_parquet(parquet_file))
    THEN parquet_file.rows
    ELSE IF csv_file # NULL THEN csv_file.rows ELSE {}

\* C18: a record without coordinates is kept out of the spatial and map
\* operations but stays in the store and is counted in the KPI figures: the
\* KPI total and category counts cover every record of the source in the
\* date range, with or without coordinates.
C18_NoCoordinatesStillCounted ==
    /\ (data_cache # NULL /\ Usable(data_cache)) => data_cache.rows = SourceRows
    /\ IsKpi =>
         /\ response.total = Cardinality(DateStage(SourceRows, response.args))
         /\ response.property
              = CountCategory(DateStage(SourceRows, response.args), "PROPERTY")
    /\ (IsQuery /\ response.callback = "update_map_points") =>
         \A r \in response.rows : r.latitude # NaN /\ r.longitude # NaN

(***************************************************************************)
(* SpecIngest: building a store from a raw extract                         *)
(* (ingeest_duckdb.py, load_from_csv of app.py, convert_to_sqlite.py)      *)
(***************************************************************************)
\* pandas NaT: the date pd.to_datetime(..., errors='coerce') yields for a
\* string that is no calendar date
NaT == -99998

\* the length of the months of 2024
DaysInMonth(m) ==
    CASE m \in {1, 3, 5, 7, 8, 10, 12} -> 31
      [] m \in {4, 6, 9, 11} -> 30
      [] m = 2 -> 29
      [] OTHER -> 0

RECURSIVE DaysBefore(_)
\* the days of 2024 before month m
DaysBefore(m) == IF m <= 1 THEN 0 ELSE DaysBefore(m - 1) + DaysInMonth(m - 1)

\* a date of 2024 as the number of its day in the year (1 = 2024-01-01), the
\* representation the records R1..R6 use
DayOfYear(m, d) == DaysBefore(m) + d

\* a parsed timestamp
Timestamp(year, month, day, h, mi, sec) ==
    [year |-> year, month |-> month, day |-> day, h |-> h, mi |-> mi, sec |-> sec]

\* the datetime strings of the model
DateStrings ==
    {"2024-01-01 10:30:00", "2024-01-02T23:05:00", "06/01/2024 03:00:00",
     "01/02/2024 11:15:00 PM", "2024-01-01", "2024 Jan 02 09:00:00 AM",
     "2007-12-31 08:00:00", "2024-02-30 10:00:00", "01/02/2024 12:15:00 AM", ""}

\* ingeest_duckdb.py:74-79: try_strptime(dt_raw, format) for the strings of the
\* model: the timestamp, or NULL when the string is not in that format
try_strptime(dt_raw, format) ==
    CASE dt_raw = "2024-01-01 10:30:00" /\ format = "%Y-%m-%d %H:%M:%S"
           -> Timestamp(2024, 1, 1, 10, 30, 0)
      [] dt_raw = "2007-12-31 08:00:00" /\ format = "%Y-%m-%d %H:%M:%S"
           -> Timestamp(2007, 12, 31, 8, 0, 0)
      [] dt_raw = "2024-01-02T23:05:00" /\ format = "%Y-%m-%dT%H:%M:%S"
           -> Timestamp(2024, 1, 2, 23, 5, 0)
      [] dt_raw = "06/01/2024 03:00:00" /\ format = "%m/%d/%Y %H:%M:%S"
           -> Timestamp(2024, 6, 1, 3, 0, 0)
      [] dt_raw = "01/02/2024 11:15:00 PM" /\ format = "%m/%d/%Y %I:%M:%S %p"
           -> Timestamp(2024, 1, 2, 23, 15, 0)
      [] dt_raw = "01/02/2024 12:15:00 AM" /\ format = "%m/%d/%Y %I:%M:%S %p"
           -> Timestamp(2024, 1, 2, 0, 15, 0)
      [] dt_raw = "2024-01-01" /\ format = "%Y-%m-%d"
           -> Timestamp(2024, 1, 1, 0, 0, 0)
      [] dt_raw = "2024 Jan 02 09:00:00 AM" /\ format = "%Y %b %d %I:%M:%S %p"
           -> Timestamp(2024, 1, 2, 9, 0, 0)
      [] OTHER -> NULL

\* ingeest_duckdb.py:74-79, 94: the formats in the order they are tried
DateFormats ==
    << "%Y-%m-%d %H:%M:%S", "%Y-%m-%dT%H:%M:%S", "%m/%d/%Y %H:%M:%S",
       "%m/%d/%Y %I:%M:%S %p", "%Y-%m-%d", "%Y %b %d %I:%M:%S %p" >>

RECURSIVE CoalesceFormats(_, _)
\* ingeest_duckdb.py:94: COALESCE(dt1, dt2, dt3, dt4, dt5, dt6)
CoalesceFormats(dt_raw, i) ==
    IF i > Len(DateFormats) THEN NULL
    ELSE IF try_strptime(dt_raw, DateFormats[i]) # NULL
    THEN try_strptime(dt_raw, DateFormats[i])
    ELSE CoalesceFormats(dt_raw, i + 1)

\* COALESCE(a, b) of two VARCHAR values, NoValue being SQL NULL
Coalesce(a, b) == IF a # NoValue THEN a ELSE b

\* ingeest_duckdb.py:60-69: CAST("Latitude" AS DOUBLE) of the coordinate
\* strings of the model, in 1/1000 degree; REDACTED, '' and NULL give NULL
CastCoordinate(text) ==
    CASE text = "47.610" -> 47610
      [] text = "48.2" -> 48200
      [] text = "0.0" -> 0
      [] text = "-122.330" -> -122330
      [] text = "-120.5" -> -120500
      [] OTHER -> NaN

\* a row of the raw SPD extract; mcpp, nibrs and sub are the optional columns
SpdRow(off, rep, lat, lon, sector, precinct, mcpp, nibrs, sub) ==
    [OffenseDate |-> off, ReportDateTime |-> rep, Latitude |-> lat, Longitude |-> lon,
     Sector |-> sector, Precinct |-> precinct, MCPP |-> mcpp,
     NibrsOffenseCode |-> nibrs, OffenseSubCategory |-> sub]

\* a row that passes every filter
GoodSpdRow ==
    SpdRow("2024-01-01 10:30:00", NoValue, "47.610", "-122.330", "B", "NORTH",
           "BALLARD NORTH", "13A", "AGGRAVATED ASSAULT")

\* the rows of the raw extract: the good row changed in one column
SpdRows ==
    {[GoodSpdRow EXCEPT !.OffenseDate = d] : d \in DateStrings}
    \cup {[GoodSpdRow EXCEPT !.OffenseDate = NoValue, !.ReportDateTime = d] :
             d \in {NoValue, "2024-01-02T23:05:00"}}
    \cup {[GoodSpdRow EXCEPT !.Latitude = l] : l \in {"REDACTED", "", NoValue, "48.2", "0.0"}}
    \cup {[GoodSpdRow EXCEPT !.Longitude = l] : l \in {"REDACTED", NoValue, "-120.5"}}
    \cup {[GoodSpdRow EXCEPT !.Sector = x] : x \in {"99", NoValue}}
    \cup {[GoodSpdRow EXCEPT !.Precinct = x] : x \in {"OOJ", NoValue}}
    \cup {[GoodSpdRow EXCEPT !.MCPP = "UNKNOWN"],
          [GoodSpdRow EXCEPT !.NibrsOffenseCode = "999"],
          [GoodSpdRow EXCEPT !.OffenseSubCategory = "999"]}

\* ingeest_duckdb.py:16-23: the optional columns a raw file can have
OptionalColumns == {"MCPP Neighborhood", "NIBRS Offense Code", "Offense Sub Category"}

\* ingeest_duckdb.py:45-106: the CTEs t, p and u for one raw row
NormalizeSpdRow(raw, columns) ==
    [dt |-> CoalesceFormats(Coalesce(raw.OffenseDate, raw.ReportDateTime), 1),
     precinct |-> Coalesce(raw.Precinct, ""),
     sector |-> Coalesce(raw.Sector, ""),
     mcpp |-> IF "MCPP Neighborhood" \in columns THEN Coalesce(raw.MCPP, "") ELSE "",
     nibrs_offense_code |-> IF "NIBRS Offense Code" \in columns
                            THEN Coalesce(raw.NibrsOffenseCode, "") ELSE "",
     offense_sub_category |-> IF "Offense Sub Category" \in columns
                              THEN Coalesce(raw.OffenseSubCategory, "") ELSE "",
     latitude |-> CastCoordinate(raw.Latitude),
     longitude |-> CastCoordinate(raw.Longitude)]

\* ingeest_duckdb.py:25-40: the WHERE clause; a comparison with NULL is not
\* true, so a row without coordinates does not pass BETWEEN
filters(u, columns) ==
    /\ u.dt # NULL
    /\ u.dt.year >= 2008
    /\ u.latitude # NaN /\ u.latitude >= 47000 /\ u.latitude <= 48100
    /\ u.longitude # NaN /\ u.longitude >= -123500 /\ u.longitude <= -121000
    /\ u.sector # "99"
    /\ u.precinct # "OOJ"
    /\ "NIBRS Offense Code" \in columns => u.nibrs_offense_code # "999"
    /\ "Offense Sub Category" \in columns => u.offense_sub_category # "999"
    /\ "MCPP Neighborhood" \in columns => u.mcpp # "UNKNOWN"

\* ingeest_duckdb.py:107-129: the SELECT list of the table crimes; time is
\* strftime(dt, '%H:%M:%S')
CrimesRow(u) ==
    [date |-> [year |-> u.dt.year, month |-> u.dt.month, day |-> u.dt.day],
     time |-> [h |-> u.dt.h, mi |-> u.dt.mi, sec |-> u.dt.sec],
     hour |-> u.dt.h,
     year |-> u.dt.year,
     precinct |-> u.precinct, sector |-> u.sector, mcpp |-> u.mcpp,
     is_out_of_area |-> (u.sector = "99" \/ u.precinct = "OOJ" \/ u.mcpp = "UNKNOWN"),
     latitude |-> u.latitude, longitude |-> u.longitude]

\* ingeest_duckdb.py:43-131: CREATE OR REPLACE TABLE crimes
CreateCrimes(raw_rows, columns) ==
    {CrimesRow(NormalizeSpdRow(raw, columns)) :
        raw \in {x \in raw_rows : filters(NormalizeSpdRow(x, columns), columns)}}

\* a row of crime_data_gold.csv (the columns load_from_csv reads)
GoldRow(year, month, day, time, lat, lon, sector, precinct) ==
    [OffenseYear |-> year, OffenseMonth |-> month, OffenseDay |-> day,
     OffenseTime |-> time, Latitude |-> lat, Longitude |-> lon,
     Sector |-> sector, Precinct |-> precinct]

GoodGoldRow == GoldRow(2024, 1, 1, "10:30:00", 47610, -122330, "B", "NORTH")

\* the rows of the gold file: the good row changed in one column; NaN and
\* NoValue are empty cells
GoldRows ==
    {GoodGoldRow,
     [GoodGoldRow EXCEPT !.OffenseMonth = 13],
     [GoodGoldRow EXCEPT !.OffenseMonth = 2, !.OffenseDay = 30],
     [GoodGoldRow EXCEPT !.OffenseMonth = 6],
     [GoodGoldRow EXCEPT !.OffenseDay = NaN]}
    \cup {[GoodGoldRow EXCEPT !.OffenseTime = t] : t \in {"23:05:00", "14:30", NoValue}}
    \cup {[GoodGoldRow EXCEPT !.Latitude = l] : l \in {NaN, 0, 48200}}
    \cup {[GoodGoldRow EXCEPT !.Longitude = l] : l \in {NaN, -120500}}
    \cup {[GoodGoldRow EXCEPT !.Sector = "99"], [GoodGoldRow EXCEPT !.Precinct = "OOJ"]}

\* app.py:157-163: pd.to_datetime('Y-MM-DD', format='%Y-%m-%d',
\* errors='coerce') for a year 2024: the day of the year, or NaT
to_datetime_ymd(year, month, day) ==
    IF month >= 1 /\ month <= 12 /\ day >= 1 /\ day <= DaysInMonth(month)
    THEN DayOfYear(month, day)
    ELSE NaT

\* app.py:169-171: pd.to_datetime(time, format='%H:%M:%S',
\* errors='coerce').dt.hour, then fillna(0), for the time texts of the model
HourOfTime(time) ==
    CASE time = "10:30:00" -> 10
      [] time = "23:05:00" -> 23
      [] OTHER -> 0

\* app.py:152-193 (the same statements: app.py:59-94,
\* convert_to_sqlite.py:58-90): the record built from one raw row; time is
\* str(Offense Time) (app.py:166), an empty cell reading as 'nan'
GoldRecord(raw) ==
    [date |-> to_datetime_ymd(raw.OffenseYear, raw.OffenseMonth, raw.OffenseDay),
     time |-> IF raw.OffenseTime = NoValue THEN "nan" ELSE raw.OffenseTime,
     hour |-> HourOfTime(raw.OffenseTime),
     precinct |-> raw.Precinct, sector |-> raw.Sector,
     latitude |-> raw.Latitude, longitude |-> raw.Longitude]

\* app.py:152: the rows that have both coordinates
HasCoordinates(raw_rows) == {x \in raw_rows : x.Latitude # NaN /\ x.Longitude # NaN}

\* app.py:158-160: astype(int) raises on an empty cell of a kept row
AstypeIntRaises(raw_rows) ==
    \E x \in HasCoordinates(raw_rows) :
        x.OffenseYear = NaN \/ x.OffenseMonth = NaN \/ x.OffenseDay = NaN

\* app.py:146-228: the frame load_from_csv builds from the rows of the file;
\* when an exception was caught (AstypeIntRaises) it returns None instead
GoldFrame(raw_rows) == {GoldRecord(x) : x \in HasCoordinates(raw_rows)}

\* raw rows a file of the model holds
MaxRawRows == 2

RECURSIVE FilesUpTo(_, _)
\* the sets of at most n rows of pool
FilesUpTo(pool, n) ==
    IF n = 0 THEN {{}}
    ELSE FilesUpTo(pool, n - 1)
           \cup {f \cup {x} : f \in FilesUpTo(pool, n - 1), x \in pool}

RawFiles(pool) == FilesUpTo(pool, MaxRawRows)

\* ingeest_duckdb.py run on a raw extract
ingeest_duckdb(raw_rows, columns) ==
    /\ response = NULL
    /\ response' = [callback |-> "ingeest_duckdb",
                    args |-> [rows |-> raw_rows, columns |-> columns],
                    raised |-> FALSE,
                    store |-> CreateCrimes(raw_rows, columns)]
    /\ UNCHANGED loadVars
    /\ UNCHANGED drillVars

\* load_from_csv (app.py:139-228) run on the rows of the gold file
LoadGoldCsv(raw_rows) ==
    /\ response = NULL
    /\ response' = [callback |-> "load_from_csv", args |-> [rows |-> raw_rows],
                    raised |-> AstypeIntRaises(raw_rows),
                    store |-> IF AstypeIntRaises(raw_rows) THEN {}
                              ELSE GoldFrame(raw_rows)]
    /\ UNCHANGED loadVars
    /\ UNCHANGED drillVars

\* convert_to_sqlite.py:26-100: the table crimes of crime_data_gold.db (one
\* chunk); an exception leaves no table
convert_csv_to_sqlite(raw_rows) ==
    /\ response = NULL
    /\ response' = [callback |-> "convert_csv_to_sqlite", args |-> [rows |-> raw_rows],
                    raised |-> AstypeIntRaises(raw_rows),
                    store |-> IF AstypeIntRaises(raw_rows) THEN {}
                              ELSE GoldFrame(raw_rows)]
    /\ UNCHANGED loadVars
    /\ UNCHANGED drillVars

InitIngest ==
    /\ InitNoFiles
    /\ InitThreads
    /\ InitDrill
    /\ data_cache = NULL
    /\ source_reads = 0
    /\ unforced_builds = 0
    /\ response = NULL

NextIngest ==
    \/ \E raw_rows \in RawFiles(SpdRows), columns \in SUBSET OptionalColumns :
          ingeest_duckdb(raw_rows, columns)
    \/ \E raw_rows \in RawFiles(GoldRows) : LoadGoldCsv(raw_rows)
    \/ \E raw_rows \in RawFiles(GoldRows) : convert_csv_to_sqlite(raw_rows)
    \/ Deliver

SpecIngest == InitIngest /\ [][NextIngest]_vars

\* a store has been built
IsStore ==
    /\ response # NULL
    /\ response.callback \in {"ingeest_duckdb", "load_from_csv", "convert_csv_to_sqlite"}
    /\ ~response.raised

\* C15: every record of the store has latitude in [47.0, 48.1] and longitude
\* in [-123.5, -121.0], and none has sector '99' or precinct 'OOJ'.
C15_StoreWithinBounds ==
    IsStore =>
      \A r \in response.store :
        /\ r.latitude >= 47000 /\ r.latitude <= 48100
        /\ r.longitude >= -123500 /\ r.longitude <= -121000
        /\ r.sector # "99"
        /\ r.precinct # "OOJ"

\* the date of a record of the store is a calendar date
ValidStoreDate(callback, r) ==
    IF callback = "ingeest_duckdb"
    THEN r.date.month \in 1..12 /\ r.date.day \in 1..DaysInMonth(r.date.month)
    ELSE r.date # NaT /\ r.date \in 1..366

\* C16: every record of the store has a valid calendar date; a raw row whose
\* date cannot be parsed is not in the store.
C16_StoreDatesValid ==
    IsStore => \A r \in response.store : ValidStoreDate(response.callback, r)

\* the hour the stored time of a record denotes, NaN when the text denotes
\* no time
HourPart(callback, r) ==
    IF callback = "ingeest_duckdb" THEN r.time.h
    ELSE CASE r.time = "10:30:00" -> 10
           [] r.time = "23:05:00" -> 23
           [] r.time = "14:30" -> 14
           [] OTHER -> NaN

\* C17: every record of the store has an integer hour in 0..23 that equals
\* the hour part of the record's stored time.
C17_HourConsistentWithTime ==
    IsStore =>
      \A r \in response.store :
        /\ r.hour \in 0..23
        /\ r.hour = HourPart(response.callback, r)

(***************************************************************************)
(* The records the exact geometric tests are evaluated on                  *)
(***************************************************************************)
\* app.py:2040-2044: the bounding-box pre-filter of update_table
BBoxStage(rows, coords) ==
    {r \in rows :
       /\ r.latitude >= geojson_to_polygon_filter(coords).min_lat
       /\ r.latitude <= geojson_to_polygon_filter(coords).max_lat
       /\ r.longitude >= geojson_to_polygon_filter(coords).min_lon
       /\ r.longitude <= geojson_to_polygon_filter(coords).max_lon}

\* app.py:2048: the rows df.apply calls point_in_polygon on, the frame being
\* what the date, coordinate and bounding-box filters left (2027-2044)
TablePolygonTested(f, frame) ==
    IF /\ f.category_value # {}
       /\ f.poly_geojson # NULL
       /\ CoordStage(DateStage(frame.rows, f.date_data)) # {}
       /\ ~BBoxRaises(f.poly_geojson.coordinates)
    THEN BBoxStage(CoordStage(DateStage(frame.rows, f.date_data)),
                   f.poly_geojson.coordinates)
    ELSE {}

\* app.py:2093-2097: the rows haversine_distance is called on in update_table,
\* the frame being what the stages before the circle left (2020-2080)
TableCircleTested(f, frame) ==
    IF f.category_value # {} /\ f.circle_coords # NULL
    THEN CoordStage(
           NeighborhoodStage(
             CategoryStage(
               HourStage(TableTryBlock(f, frame), TableHourRange(f.hour_value)),
               f.category_value),
             f.neighborhood_value))
    ELSE {}

\* app.py:2212: the rows haversine_distance is called on in update_map_points
\* (those with a latitude), the frame being what the date, hour, category
\* and neighborhood filters left (2190-2207)
MapCircleTested(f, frame) ==
    IF /\ f.category_value # {}
       /\ frame.rows # {}
       /\ ~MapDateRaises(f, frame)
       /\ f.circle_coords # NULL
    THEN {r \in NeighborhoodStage(
                  CategoryStage(
                    IF f.hour_value # NULL
                    THEN HourStage(DateStage(frame.rows, f.date_data), f.hour_value)
                    ELSE DateStage(frame.rows, f.date_data),
                    f.category_value),
                  f.neighborhood_value) :
            r.latitude # NaN}
    ELSE {}

\* the records an exact geometric test (ray casting or haversine) is
\* evaluated on by `callback` for the inputs f
GeometryTested(callback, f) ==
    IF callback = "update_table"
    THEN TablePolygonTested(f, Frame) \cup TableCircleTested(f, Frame)
    ELSE MapCircleTested(f, Frame)

\* record r passes the date, hour, category, neighborhood and
\* coordinate-presence filters of f
PassesCheapFilters(r, f) ==
    /\ f.date_data # NULL =>
          r.date >= f.date_data.start_date /\ r.date <= f.date_data.end_date
    /\ (f.hour_value # NULL /\ f.hour_value # HourRange(0, 24)) =>
          r.hour >= f.hour_value.lo /\ r.hour <= Min(f.hour_value.hi, 23)
    /\ r.crime_against_category \in f.category_value
    /\ f.neighborhood_value # {} => r.area \in f.neighborhood_value
    /\ r.latitude # NaN /\ r.longitude # NaN

\* C19: the exact geometric test is evaluated only on records that passed
\* the date, hour, category, neighborhood and coordinate-presence filters
\* and, for a polygon, the bounding-box pre-filter.
C19_GeometryOnSurvivorsOnly ==
    IsQuery =>
      /\ \A r \in GeometryTested(response.callback, response.args) :
            PassesCheapFilters(r, response.args)
      /\ response.callback = "update_table" =>
            \A r \in TablePolygonTested(response.args, Frame) :
               r \in BBoxStage({r}, response.args.poly_geojson.coordinates)

(***************************************************************************)
(* SpecTrend: update_trend_chart (app.py:1499-1680)                        *)
(***************************************************************************)
\* head(10) / tail(10) of update_trend_chart (app.py:1572, 1575), scaled to
\* the neighborhoods of the model
TopN == 2

TrendRow(id, date, area, hazardness) ==
    [id |-> id, date |-> date, hour |-> 10, crime_against_category |-> "PERSON",
     area |-> area, hazardness |-> hazardness,
     latitude |-> 47610, longitude |-> -122330]

\* records of five neighborhoods; dates 1, 61, 62, 181, 182 give the spans
\* 60, 61, 180 and 181 days; record 7 has no hazard score; the only record
\* of GEORGETOWN is of July 2024
TrendRows ==
    {TrendRow(1, 1, "BALLARD", 5), TrendRow(2, 2, "BALLARD", 1),
     TrendRow(3, 1, "FREMONT", 3), TrendRow(4, 61, "FREMONT", 3),
     TrendRow(5, 62, "QUEEN ANNE", 9), TrendRow(6, 181, "WALLINGFORD", 2),
     TrendRow(7, 182, "WALLINGFORD", NaN), TrendRow(8, 200, "GEORGETOWN", 4),
     TrendRow(9, 2, "BALLARD", 6)}

\* the data files of SpecTrend
TrendFiles ==
    { <<NULL, NULL>>,
      <<NULL, [rows |-> TrendRows, date_dtype |-> "datetime64"]>>,
      <<NULL, [rows |-> {r \in TrendRows : r.id <= 5}, date_dtype |-> "datetime64"]>>,
      <<[rows |-> TrendRows, date_dtype |-> "object"], NULL>> }

\* the orders a sort can leave rows of equal key in: the rotations of the
\* neighborhoods in the order of their names, and of the reverse order
TieOrders ==
    LET order == <<"BALLARD", "FREMONT", "GEORGETOWN", "QUEEN ANNE", "WALLINGFORD">>
        n == Len(order)
    IN {[i \in 1..n |-> order[((i - 1 + k) % n) + 1]] : k \in 0..(n - 1)}
       \cup {[i \in 1..n |-> order[n - ((i - 1 + k) % n)]] : k \in 0..(n - 1)}

\* the inputs of update_trend_chart: the three Inputs of the callback (a date
\* range from day 1 or none), the clock (datetime.now(): a day of July 2024 or
\* of January 2025), the order the sort leaves ties in, and the default of
\* `observed` in groupby of the pandas in use (False before pandas 3, True
\* from pandas 3)
TrendArgs ==
    [date_data : {NULL} \cup {[start_date |-> 1, end_date |-> e] : e \in {61, 62, 181, 182}},
     sort_order : {"top", "bottom", NoValue},
     metric : {"count", "hazard", NoValue},
     today : {[year |-> 2024, month |-> 7, day |-> 15],
              [year |-> 2025, month |-> 1, day |-> 10]},
     tie : TieOrders,
     observed : BOOLEAN]

\* app.py:1531-1533: today.replace(day=1, ...) as a day number counted from
\* 2024-01-01 (2024 has 366 days)
first_of_current_month(today) ==
    (today.year - 2024) * 366 + DayOfYear(today.month, 1)

\* app.py:1513-1518
SortOrder(a) == IF a.sort_order = NoValue THEN "top" ELSE a.sort_order
Metric(a) == IF a.metric = NoValue THEN "count" ELSE a.metric

\* app.py:1535: df['date'] < first_of_current_month on a column of strings
\* raises TypeError; the column is converted at 1523 only with a date range
TrendRaises(a, frame) ==
    frame.rows # {} /\ ~DateActive(a.date_data) /\ frame.date_dtype = "object"

\* app.py:1521-1535: df after the date filter and the exclusion of the
\* current month
TrendDf(a, frame) ==
    {r \in (IF frame.rows # {} THEN DateStage(frame.rows, a.date_data) ELSE frame.rows) :
        r.date < first_of_current_month(a.today)}

\* app.py:1545: (df['date'].max() - df['date'].min()).days
date_range_days(df) ==
    SeqMax([r \in df |-> r.date]) - SeqMin([r \in df |-> r.date])

\* app.py:1547-1555: the bucket width
Bucket(df) ==
    IF date_range_days(df) > 180 THEN "Month"
    ELSE IF date_range_days(df) > 60 THEN "Week"
    ELSE "Date"

\* app.py:1548, 1551, 1554: the period of a date: the first day of its
\* month, the Monday of its week (2024-01-01 is a Monday), or the date
period(date, bucket) ==
    CASE bucket = "Month" ->
           DaysBefore(CHOOSE m \in 1..12 : /\ DaysBefore(m) < date
                                            /\ date <= DaysBefore(m) + DaysInMonth(m)) + 1
      [] bucket = "Week" -> date - ((date - 1) % 7)
      [] OTHER -> date

\* the sum of hazardness after app.py:1561,
\* pd.to_numeric(..., errors='coerce').fillna(0)
RECURSIVE SumHazard(_)
SumHazard(rows) ==
    IF rows = {} THEN 0
    ELSE LET r == CHOOSE x \in rows : TRUE
         IN (IF r.hazardness = NaN THEN 0 ELSE r.hazardness) + SumHazard(rows \ {r})

\* the mean of hazardness over rows, as the fraction sum / n; n = 0 is NaN
MeanHazard(rows) == [sum |-> SumHazard(rows), n |-> Cardinality(rows)]

\* the categories of the area column: load_from_csv and load_from_parquet
\* make it categorical (app.py:199-203, 107-111), and filtering keeps the
\* categories
AreaCategories(frame) == {r.area : r \in frame.rows}

\* app.py:1558-1567: the index of area_metric.  value_counts() of a
\* categorical column lists every category, with count 0 for those without
\* rows; groupby('area') does so unless observed is True
RankedAreas(a, df, categories) ==
    IF Metric(a) = "hazard" /\ a.observed THEN {r.area : r \in df}
    ELSE categories

RowsOf(df, area) == {r \in df : r.area = area}

\* the position of area x in area_metric, from 0: the number of areas before
\* it.  Area y comes before area x when its metric is higher (NaN last), or
\* equal and the sort leaves y first
Position(a, df, categories, x) ==
    LET pos(z) == CHOOSE i \in DOMAIN a.tie : a.tie[i] = z
        higher(my, mx) ==
          IF Metric(a) = "hazard"
          THEN (my.n > 0 /\ mx.n = 0) \/ (my.n > 0 /\ mx.n > 0 /\ my.sum * mx.n > mx.sum * my.n)
          ELSE my.n > mx.n
        equal(my, mx) ==
          IF Metric(a) = "hazard"
          THEN (my.n = 0 /\ mx.n = 0) \/ (my.n > 0 /\ mx.n > 0 /\ my.sum * mx.n = mx.sum * my.n)
          ELSE my.n = mx.n
        before(y) ==
          \/ higher(MeanHazard(RowsOf(df, y)), MeanHazard(RowsOf(df, x)))
          \/ /\ equal(MeanHazard(RowsOf(df, y)), MeanHazard(RowsOf(df, x)))
             /\ pos(y) < pos(x)
    IN Cardinality({y \in RankedAreas(a, df, categories) : y # x /\ before(y)})

\* app.py:1570-1575: area_metric.head(TopN) with sort order top,
\* area_metric.tail(TopN) with sort order bottom
selected_areas_head_for_bottom(a, df, categories) ==
    {x \in RankedAreas(a, df, categories) : Position(a, df, categories, x) < TopN}

selected_areas(a, df, categories) ==
    IF SortOrder(a) = "bottom"
    THEN {x \in RankedAreas(a, df, categories) :
            Position(a, df, categories, x) >= Cardinality(RankedAreas(a, df, categories)) - TopN}
    ELSE {x \in RankedAreas(a, df, categories) : Position(a, df, categories, x) < TopN}

\* app.py:1578-1585: the rows of the selected areas grouped by (period,
\* area).  The group keys are the pairs that have rows when observed is True;
\* otherwise every period that has rows is paired with every category of the
\* area column, with size 0 and mean NaN for the pairs without rows
df_trends(a, df, categories) ==
    LET sel == {r \in df : r.area \in selected_areas(a, df, categories)}
        per(r) == period(r.date, Bucket(df))
        keys == IF a.observed THEN {<<per(r), r.area>> : r \in sel}
                ELSE {per(r) : r \in sel} \X categories
        group(k) == {r \in sel : per(r) = k[1] /\ r.area = k[2]}
    IN {[date |-> k[1], area |-> k[2],
         value |-> IF Metric(a) = "hazard" THEN MeanHazard(group(k))
                   ELSE Cardinality(group(k))] : k \in keys}

\* app.py:1499-1680: the callback behind the trend chart
update_trend_chart(a) ==
    /\ response = NULL
    /\ CallLoadAllData(DateActive(a.date_data)
                         /\ LoadedFrame(data_cache, parquet_file, csv_file).rows # {})
    /\ response' =
         LET frame == LoadedFrame(data_cache, parquet_file, csv_file)
             df == TrendDf(a, frame)
         IN IF TrendRaises(a, frame)
            THEN [callback |-> "update_trend_chart", args |-> a, status |-> "Error",
                  categories |-> AreaCategories(frame), df |-> {}, x_label |-> "Date",
                  selected_areas |-> {}, df_trends |-> {}]
            ELSE IF df = {}
            THEN [callback |-> "update_trend_chart", args |-> a,
                  status |-> "No data available",
                  categories |-> AreaCategories(frame), df |-> {}, x_label |-> "Date",
                  selected_areas |-> {}, df_trends |-> {}]
            ELSE [callback |-> "update_trend_chart", args |-> a,
                  status |-> IF df_trends(a, df, AreaCategories(frame)) = {} THEN "No data available"
                             ELSE "ok",
                  categories |-> AreaCategories(frame), df |-> df,
                  x_label |-> Bucket(df),
                  selected_areas |-> selected_areas(a, df, AreaCategories(frame)),
                  df_trends |-> df_trends(a, df, AreaCategories(frame))]
    /\ UNCHANGED <<parquet_file, csv_file, pc, force_refresh, result, calls>>
    /\ UNCHANGED drillVars

InitTrend ==
    /\ \E files \in TrendFiles : parquet_file = files[1] /\ csv_file = files[2]
    /\ InitThreads
    /\ InitDrill
    /\ data_cache = NULL
    /\ source_reads = 0
    /\ unforced_builds = 0
    /\ response = NULL

NextTrend ==
    \/ \E a \in TrendArgs : update_trend_chart(a)
    \/ Deliver

SpecTrend == InitTrend /\ [][NextTrend]_vars

IsTrend == response # NULL /\ response.callback = "update_trend_chart"

\* C13: for the same filtered set and the same metric, when the filtered set
\* has at least 2 * TopN distinct neighborhoods (20 for the 10 of the code),
\* the neighborhoods selected with sort order top and those selected with
\* sort order bottom have no member in common
C13_TopBottomDisjoint ==
    (IsTrend /\ response.status # "Error"
       /\ Cardinality({r.area : r \in response.df}) >= 2 * TopN)
    => LET a == response.args
           top == selected_areas([a EXCEPT !.sort_order = "top"],
                                 response.df, response.categories)
           bottom == selected_areas([a EXCEPT !.sort_order = "bottom"],
                                    response.df, response.categories)
       IN /\ response.selected_areas = (IF SortOrder(a) = "bottom" THEN bottom ELSE top)
          /\ top \cap bottom = {}

\* a bottom selection over at least four neighborhoods, disjoint from the top one
C13_Witness ==
    /\ IsTrend
    /\ response.status = "ok"
    /\ response.args.sort_order = "bottom"
    /\ Cardinality({r.area : r \in response.df}) >= 2 * TopN
    /\ Cardinality(response.selected_areas) = TopN

\* the neighborhoods a trend result reports in the bucket that starts at p
BucketAreas(p) == {e.area : e \in {x \in response.df_trends : x.date = p}}

\* C20: the neighborhoods of a trend result are fixed before bucketing: every
\* (bucket, neighborhood) entry names one of the at most TopN selected
\* neighborhoods, and every bucket reports the same neighborhood set
C20_SameNeighborhoodsInEveryBucket ==
    (IsTrend /\ response.status = "ok")
    => /\ Cardinality(response.selected_areas) <= TopN
       /\ response.selected_areas
            = selected_areas(response.args, response.df, response.categories)
       /\ \A e \in response.df_trends : e.area \in response.selected_areas
       /\ \A e1, e2 \in response.df_trends : BucketAreas(e1.date) = BucketAreas(e2.date)

\* C21: no record dated on or after the first day of the current month
\* contributes to the neighborhood ranking, to the choice of bucket width or
\* to any trend bucket: the filtered set holds no such record, and the
\* bucket width, the selection and the buckets are those of the store without
\* these records
C21_CurrentMonthExcluded ==
    (IsTrend /\ response.status # "Error")
    => LET a == response.args
           before == {r \in Frame.rows : r.date < first_of_current_month(a.today)}
           kept == DateStage(before, a.date_data)
           cats == {r.area : r \in before}
       IN /\ response.df = kept
          /\ kept # {} => /\ response.x_label = Bucket(kept)
                          /\ response.selected_areas = selected_areas(a, kept, cats)
                          /\ response.df_trends = df_trends(a, kept, cats)

\* C22: the trend bucket width is chosen from the span in days between the
\* earliest and the latest filtered date: month when the span is greater than
\* 180, week when it is from 60 to 180 inclusive, day otherwise
C22_BucketWidthFromSpan ==
    (IsTrend /\ response.status # "Error" /\ response.df # {})
    => LET span == date_range_days(response.df)
       IN response.x_label = (IF span > 180 THEN "Month"
                              ELSE IF span >= 60 THEN "Week"
                              ELSE "Date")

(***************************************************************************)
(* SpecPolygon: point_in_polygon (app.py:323-344) as a function            *)
(***************************************************************************)
\* polygons as lists of [lon, lat] pairs on a small grid: a triangle, a
\* square (horizontal and vertical edges), a concave polygon with collinear
\* and repeated edges, and a list that repeats its first vertex at the end
\* (a GeoJSON ring)
GridPolygons ==
    { << <<0, 0>>, <<4, 0>>, <<2, 4>> >>,
      << <<1, 1>>, <<3, 1>>, <<3, 3>>, <<1, 3>> >>,
      << <<0, 0>>, <<4, 0>>, <<4, 4>>, <<2, 2>>, <<0, 4>> >>,
      << <<1, 0>>, <<3, 2>>, <<1, 4>>, <<1, 0>> >>,
      << <<0, 2>>, <<4, 2>> >> }

\* one call point_in_polygon(lat, lon, polygon_coords)
CallPointInPolygon(lat, lon, polygon_coords) ==
    /\ response = NULL
    /\ response' = [callback |-> "point_in_polygon",
                    args |-> [lat |-> lat, lon |-> lon, polygon_coords |-> polygon_coords],
                    result |-> point_in_polygon(lat, lon, polygon_coords)]
    /\ UNCHANGED loadVars
    /\ UNCHANGED drillVars

NextPolygon ==
    \/ \E lat \in 0..4, lon \in 0..4, polygon_coords \in GridPolygons :
          CallPointInPolygon(lat, lon, polygon_coords)
    \/ Deliver

SpecPolygon == InitIngest /\ [][NextPolygon]_vars

IsPolygonCall == response # NULL /\ response.callback = "point_in_polygon"

\* the edges of the polygon of the last call, the closing edge from the last
\* vertex to the first included, as pairs of end points
CallEdges ==
    LET c == response.args.polygon_coords
    IN {<<i, c[i], c[(i % Len(c)) + 1]>> : i \in 1..Len(c)}

\* the horizontal ray from (x, y) towards greater x crosses the edge e: y is
\* in the half-open y-range of the edge and x is at most the x-intercept
RayCrosses(e) ==
    LET x == response.args.lon
        y == response.args.lat
        p1x == e[2][1]
        p1y == e[2][2]
        p2x == e[3][1]
        p2y == e[3][2]
    IN /\ p1y # p2y
       /\ (p1y < y /\ y <= p2y) \/ (p2y < y /\ y <= p1y)
       /\ IF p2y > p1y
          THEN x * (p2y - p1y) <= (y - p1y) * (p2x - p1x) + p1x * (p2y - p1y)
          ELSE x * (p1y - p2y) <= (y - p1y) * (p1x - p2x) + p1x * (p1y - p2y)

\* C23: point_in_polygon returns true exactly when the number of polygon
\* edges (the closing edge included) crossed by the horizontal ray from the
\* point is odd; an edge with both end points at the same y never toggles the
\* result, and an edge with both end points at the same x toggles it whenever
\* the y-range and max-x tests pass
C23_OddCrossings ==
    IsPolygonCall
    => LET x == response.args.lon
           y == response.args.lat
       IN /\ response.result = (Cardinality({e \in CallEdges : RayCrosses(e)}) % 2 = 1)
          /\ \A e \in CallEdges :
               /\ e[2][2] = e[3][2]
                    => ~EdgeToggles(x, y, e[2][1], e[2][2], e[3][1], e[3][2])
               /\ e[2][1] = e[3][1]
                    => (EdgeToggles(x, y, e[2][1], e[2][2], e[3][1], e[3][2])
                          <=> /\ y > Min(e[2][2], e[3][2])
                              /\ y <= Max(e[2][2], e[3][2])
                              /\ x <= e[2][1])

\* a point inside the square, whose ray crosses one vertical edge, with a
\* horizontal edge in the polygon
C23_Witness ==
    /\ IsPolygonCall
    /\ response.result
    /\ \E e \in CallEdges : e[2][1] = e[3][1] /\ RayCrosses(e)
    /\ \E e \in CallEdges : e[2][2] = e[3][2]

(***************************************************************************)
(* SpecChart: update_crime_type_chart (app.py:1741-1900)                   *)
(***************************************************************************)
\* nlargest(10, 'count') at the category level (app.py:1801) and head(20) at
\* the subcategory level (app.py:1846), scaled to the subcategories of the
\* model
CategoryTopN == 2
SubcategoryTopN == 3

\* records of three categories: PERSON has four subcategories (3, 2, 1 and 1
\* records), PROPERTY two (2 and 2), SOCIETY one (1)
ChartRows ==
    LET row(id, date, category, sub) ==
          [id |-> id, date |-> date, hour |-> 10,
           crime_against_category |-> category, offense_sub_category |-> sub,
           area |-> "BALLARD", latitude |-> 47610, longitude |-> -122330]
    IN {row(1, 1, "PERSON", "SIMPLE ASSAULT"), row(2, 1, "PERSON", "SIMPLE ASSAULT"),
        row(3, 2, "PERSON", "SIMPLE ASSAULT"), row(4, 1, "PERSON", "ROBBERY"),
        row(5, 2, "PERSON", "ROBBERY"), row(6, 1, "PERSON", "HOMICIDE"),
        row(7, 2, "PERSON", "KIDNAPPING"), row(8, 1, "PROPERTY", "BURGLARY"),
        row(9, 2, "PROPERTY", "BURGLARY"), row(10, 1, "PROPERTY", "ARSON"),
        row(11, 2, "PROPERTY", "ARSON"), row(12, 2, "SOCIETY", "NARCOTICS")}

\* the inputs of update_crime_type_chart: the stores, the date range, the
\* default of `observed` in groupby of the pandas in use, and the order a
\* sort leaves equal counts in (by name, or by name reversed)
ChartArgs ==
    [drill_level : {"category", "subcategory"},
     selected_category : {NoValue, "PERSON", "PROPERTY", "SOCIETY"},
     date_data : {NULL, [start_date |-> 1, end_date |-> 1], [start_date |-> 2, end_date |-> 2]},
     observed : BOOLEAN,
     ties_reversed : BOOLEAN]

\* the place of a name among names of equal count
TiePosition(a, name) ==
    LET order == <<"ARSON", "BURGLARY", "HOMICIDE", "KIDNAPPING", "NARCOTICS",
                   "PERSON", "PROPERTY", "ROBBERY", "SIMPLE ASSAULT", "SOCIETY">>
        i == CHOOSE j \in DOMAIN order : order[j] = name
    IN IF a.ties_reversed THEN Len(order) - i ELSE i

\* sort_values(ascending=False) of the entries `names` with the counts
\* `count`: the names as a sequence, highest count first
SortDescending(a, names, count) ==
    LET before(y, x) == \/ count[y] > count[x]
                        \/ count[y] = count[x] /\ TiePosition(a, y) < TiePosition(a, x)
    IN [i \in 1..Cardinality(names) |->
          CHOOSE x \in names : Cardinality({y \in names : before(y, x)}) = i - 1]

\* app.py:1774: df.groupby(['crime_against_category',
\* 'offense_sub_category']).size() as the set of its keys; both columns are
\* categorical, so every pair of categories is a key unless observed is True
grouped(a, df, frame) ==
    IF a.observed
    THEN {<<r.crime_against_category, r.offense_sub_category>> : r \in df}
    ELSE {r.crime_against_category : r \in frame.rows}
           \X {r.offense_sub_category : r \in frame.rows}

\* the column count of grouped for the key k
GroupCount(df, k) ==
    Cardinality({r \in df : r.crime_against_category = k[1]
                              /\ r.offense_sub_category = k[2]})

\* app.py:1777-1780: the categories by the sum of the counts of their rows in
\* grouped, descending
sorted_categories(a, df, frame) ==
    LET names == {k[1] : k \in grouped(a, df, frame)}
    IN SortDescending(a, names,
                      [c \in names |-> Cardinality({r \in df : r.crime_against_category = c})])

\* app.py:1800-1801: cat_data.nlargest(10, 'count').sort_values('count',
\* ascending=False), as the sequence of subcategories
top_subcats_nsmallest(a, df, frame, category) ==
    LET names == {k[2] : k \in {g \in grouped(a, df, frame) : g[1] = category}}
        sorted == SortDescending(a, names,
                                 [n \in names |-> GroupCount(df, <<category, n>>)])
        m == Min(CategoryTopN, Len(sorted))
    IN [i \in 1..m |-> sorted[Len(sorted) - m + i]]

top_subcats(a, df, frame, category) ==
    LET names == {k[2] : k \in {g \in grouped(a, df, frame) : g[1] = category}}
        sorted == SortDescending(a, names,
                                 [n \in names |-> GroupCount(df, <<category, n>>)])
    IN SubSeq(sorted, 1, Min(CategoryTopN, Len(sorted)))

\* app.py:1796-1816: the traces, one list of bars [name, x, y] per category
\* in the order of sorted_categories
Traces(a, df, frame) ==
    [i \in DOMAIN sorted_categories(a, df, frame) |->
       LET category == sorted_categories(a, df, frame)[i]
           subs == top_subcats(a, df, frame, category)
       IN [j \in DOMAIN subs |->
             [name |-> subs[j], x |-> category,
              y |-> GroupCount(df, <<category, subs[j]>>)]]]

\* app.py:1843-1849: value_counts().head(20) of the subcategory column of
\* the rows of the selected category (of all rows when none is selected),
\* then reversed: the bars [name, x] from the bottom of the chart to its top.
\* value_counts() of a categorical column lists every category
subcats_all_categories(a, df, frame) ==
    LET names == {r.offense_sub_category : r \in frame.rows}
        count == [n \in names |-> Cardinality({r \in df : r.offense_sub_category = n})]
        sorted == SortDescending(a, names, count)
        n == Min(SubcategoryTopN, Len(sorted))
    IN [i \in 1..n |-> [name |-> sorted[n + 1 - i], x |-> count[sorted[n + 1 - i]]]]

subcats(a, df, frame) ==
    LET sel == IF a.selected_category # NoValue
               THEN {r \in df : r.crime_against_category = a.selected_category}
               ELSE df
        names == {r.offense_sub_category : r \in frame.rows}
        count == [n \in names |-> Cardinality({r \in sel : r.offense_sub_category = n})]
        sorted == SortDescending(a, names, count)
        n == Min(SubcategoryTopN, Len(sorted))
    IN [i \in 1..n |-> [name |-> sorted[n + 1 - i], x |-> count[sorted[n + 1 - i]]]]

\* app.py:1741-1900
update_crime_type_chart(a) ==
    /\ response = NULL
    /\ CallLoadAllData(DateActive(a.date_data)
                         /\ LoadedFrame(data_cache, parquet_file, csv_file).rows # {})
    /\ response' =
         LET frame == LoadedFrame(data_cache, parquet_file, csv_file)
             df == DateStage(frame.rows, a.date_data)
         IN IF df = {}
            THEN [callback |-> "update_crime_type_chart", args |-> a,
                  status |-> "No data available", df |-> {},
                  sorted_categories |-> <<>>, traces |-> <<>>, bars |-> <<>>]
            ELSE IF a.drill_level = "category"
            THEN [callback |-> "update_crime_type_chart", args |-> a,
                  status |-> "ok", df |-> df,
                  sorted_categories |-> sorted_categories(a, df, frame),
                  traces |-> Traces(a, df, frame), bars |-> <<>>]
            ELSE [callback |-> "update_crime_type_chart", args |-> a,
                  status |-> "ok", df |-> df,
                  sorted_categories |-> <<>>, traces |-> <<>>,
                  bars |-> subcats(a, df, frame)]
    /\ UNCHANGED <<parquet_file, csv_file, pc, force_refresh, result, calls>>
    /\ UNCHANGED drillVars

InitChart ==
    /\ parquet_file = NULL
    /\ csv_file \in {NULL, [rows |-> ChartRows, date_dtype |-> "datetime64"],
                     [rows |-> {r \in ChartRows : r.id <= 9}, date_dtype |-> "datetime64"]}
    /\ InitThreads
    /\ InitDrill
    /\ data_cache = NULL
    /\ source_reads = 0
    /\ unforced_builds = 0
    /\ response = NULL

NextChart ==
    \/ \E a \in ChartArgs : update_crime_type_chart(a)
    \/ Deliver

SpecChart == InitChart /\ [][NextChart]_vars

IsChart == response # NULL /\ response.callback = "update_crime_type_chart"

\* the number of records of the filtered set of the last chart call with
\* this category and subcategory
ChartCount(category, sub) ==
    Cardinality({r \in response.df : r.crime_against_category = category
                                       /\ r.offense_sub_category = sub})

\* the subcategories that have records of this category in the filtered set
ChartSubs(category) ==
    {r.offense_sub_category : r \in {x \in response.df : x.crime_against_category = category}}

\* C24: at the category drill level each category shows at most CategoryTopN
\* (10 in the code) subcategories, they are the ones with the highest counts
\* in that category, and the categories are ordered by their total count over
\* all their subcategories, descending
C24_CategoryLevelTop ==
    (IsChart /\ response.status = "ok" /\ response.args.drill_level = "category")
    => LET cats == response.sorted_categories
           total(c) == Cardinality({r \in response.df : r.crime_against_category = c})
       IN /\ DOMAIN response.traces = DOMAIN cats
          /\ \A r \in response.df : \E i \in DOMAIN cats : cats[i] = r.crime_against_category
          /\ \A i, j \in DOMAIN cats :
               /\ i < j => total(cats[i]) >= total(cats[j])
               /\ i # j => cats[i] # cats[j]
          /\ \A i \in DOMAIN cats :
               LET bars == response.traces[i]
                   shown == {bars[j].name : j \in DOMAIN bars}
               IN /\ Len(bars) <= CategoryTopN
                  /\ Cardinality(shown) = Len(bars)
                  /\ Len(bars) >= Min(CategoryTopN, Cardinality(ChartSubs(cats[i])))
                  /\ \A j \in DOMAIN bars :
                       /\ bars[j].x = cats[i]
                       /\ bars[j].y = ChartCount(cats[i], bars[j].name)
                       /\ \A t \in ChartSubs(cats[i]) \ shown :
                            ChartCount(cats[i], t) <= bars[j].y

\* a category-level chart in which PERSON has more subcategories than are
\* shown and the categories have different totals
C24_Witness ==
    /\ IsChart
    /\ response.status = "ok"
    /\ response.args.drill_level = "category"
    /\ Cardinality(ChartSubs("PERSON")) > CategoryTopN
    /\ Len(response.sorted_categories) >= 3
    /\ Len(response.traces[1]) = CategoryTopN

\* C25: at the subcategory drill level, with a category selected, the chart
\* holds at most SubcategoryTopN (20 in the code) subcategories, each counted
\* over the records of the selected category only, being the ones with the
\* highest counts, ordered by count descending from the top of the chart
\* (the bars are listed from the bottom)
C25_SubcategoryLevelTop ==
    (IsChart /\ response.status = "ok" /\ response.args.drill_level = "subcategory"
       /\ response.args.selected_category # NoValue)
    => LET bars == response.bars
           selected == response.args.selected_category
           shown == {bars[j].name : j \in DOMAIN bars}
       IN /\ Len(bars) <= SubcategoryTopN
          /\ Cardinality(shown) = Len(bars)
          /\ Len(bars) >= Min(SubcategoryTopN, Cardinality(ChartSubs(selected)))
          /\ \A i, j \in DOMAIN bars : i < j => bars[i].x <= bars[j].x
          /\ \A j \in DOMAIN bars :
               /\ bars[j].x = ChartCount(selected, bars[j].name)
               /\ \A t \in ChartSubs(selected) \ shown : ChartCount(selected, t) <= bars[j].x

\* a chart of PERSON, which has more subcategories than are shown, while
\* other categories have records too
C25_Witness ==
    /\ IsChart
    /\ response.status = "ok"
    /\ response.args.drill_level = "subcategory"
    /\ response.args.selected_category = "PERSON"
    /\ Cardinality(ChartSubs("PERSON")) > SubcategoryTopN
    /\ ChartSubs("PROPERTY") # {}
    /\ Len(response.bars) = SubcategoryTopN
    /\ response.bars[1].x < response.bars[SubcategoryTopN].x

\* C26: after any sequence of chart clicks and back-button presses the drill
\* level is subcategory exactly when the selected-category store holds a
\* category, and category exactly when it holds none; the reset counter never
\* decreases and grows by exactly one per back-button press (and only then)
C26_DrillStoresConsistent ==
    /\ [](/\ drill_level_store \in {"category", "subcategory"}
          /\ drill_level_store = "subcategory" <=> selected_category_store \in Categories
          /\ drill_level_store = "category" <=> selected_category_store = NoValue)
    /\ [][/\ click_reset_counter' >= click_reset_counter
          /\ triggered' = "drill-back-btn" => click_reset_counter' = click_reset_counter + 1
          /\ triggered' # "drill-back-btn" => click_reset_counter' = click_reset_counter]_vars

\* a category was drilled into after a back-button press
C26_Witness ==
    /\ drill_level_store = "subcategory"
    /\ selected_category_store = "PROPERTY"
    /\ click_reset_counter >= 1
    /\ triggered = "bar-crime-types"

(***************************************************************************)
(* SpecHour: the hour range slider and its buttons (app.py:868-892,        *)
(* 1297-1335)                                                              *)
(***************************************************************************)
\* the components of the drill-down chart, which the hour callbacks leave
\* alone
chartVars == <<drill_level_store, selected_category_store, click_reset_counter,
               drill_back_btn_style, bar_chart_subtitle, clickData>>

\* app.py:868-892: the user drags the handles of the RangeSlider (min=0,
\* max=24, step=1, allowCross=False)
DragHourRange(lo, hi) ==
    /\ lo <= hi
    /\ hour_range_slider' = <<lo, hi>>
    /\ triggered' = "hour-range-slider"
    /\ UNCHANGED <<loadVars, response, chartVars>>

\* app.py:1297-1305
handle_reset_hour ==
    /\ hour_range_slider' = <<0, 24>>
    /\ triggered' = "reset-hour-btn"
    /\ UNCHANGED <<loadVars, response, chartVars>>

\* app.py:1308-1320; no_update leaves the value of the slider
shift_earlier ==
    /\ hour_range_slider' =
         IF Len(hour_range_slider) = 2 /\ hour_range_slider[1] > 0
         THEN <<hour_range_slider[1] - 1, hour_range_slider[2] - 1>>
         ELSE hour_range_slider
    /\ triggered' = "shift-earlier-btn"
    /\ UNCHANGED <<loadVars, response, chartVars>>

\* shift_later that tests the start of the range instead of its end
shift_later_tests_start ==
    /\ hour_range_slider' =
         IF Len(hour_range_slider) = 2 /\ hour_range_slider[1] < 24
         THEN <<hour_range_slider[1] + 1, hour_range_slider[2] + 1>>
         ELSE hour_range_slider
    /\ triggered' = "shift-later-btn"
    /\ UNCHANGED <<loadVars, response, chartVars>>

\* app.py:1323-1335
shift_later ==
    /\ hour_range_slider' =
         IF Len(hour_range_slider) = 2 /\ hour_range_slider[2] < 24
         THEN <<hour_range_slider[1] + 1, hour_range_slider[2] + 1>>
         ELSE hour_range_slider
    /\ triggered' = "shift-later-btn"
    /\ UNCHANGED <<loadVars, response, chartVars>>

NextHour ==
    \/ \E lo \in 0..24, hi \in 0..24 : DragHourRange(lo, hi)
    \/ handle_reset_hour
    \/ shift_earlier
    \/ shift_later

SpecHour == InitDrillSpec /\ [][NextHour]_vars

\* C27: after any sequence of shift-earlier, shift-later and reset actions
\* (and of drags of the slider) starting from the hour range [0, 24], the range
\* [lo, hi] satisfies 0 <= lo <= hi <= 24; each shift that is applied moves
\* both ends by exactly one hour, so hi - lo is unchanged, and a shift that
\* would move an end outside [0, 24] changes nothing
C27_HourRangeShifts ==
    /\ [](/\ Len(hour_range_slider) = 2
          /\ 0 <= hour_range_slider[1]
          /\ hour_range_slider[1] <= hour_range_slider[2]
          /\ hour_range_slider[2] <= 24)
    /\ [][/\ triggered' = "shift-earlier-btn"
             => IF hour_range_slider[1] >= 1
                THEN hour_range_slider' = <<hour_range_slider[1] - 1,
                                            hour_range_slider[2] - 1>>
                ELSE hour_range_slider' = hour_range_slider
          /\ triggered' = "shift-later-btn"
             => IF hour_range_slider[2] <= 23
                THEN hour_range_slider' = <<hour_range_slider[1] + 1,
                                            hour_range_slider[2] + 1>>
                ELSE hour_range_slider' = hour_range_slider
          /\ triggered' = "reset-hour-btn" => hour_range_slider' = <<0, 24>>]_vars

\* a range that was shifted later until its end reached 24
C27_Witness ==
    /\ triggered = "shift-later-btn"
    /\ hour_range_slider[2] = 24
    /\ hour_range_slider[1] \in 1..23

\* C28: for identical filter inputs (date range, hour range, categories,
\* neighborhoods, polygon, circle) update_table and update_map_points select
\* the same set of records before their display caps are applied
C28_TableAndMapSelectSame ==
    IsQuery => QueryDf("update_table", response.args)
                 = QueryDf("update_map_points", response.args)

(***************************************************************************)
(* SpecReload: load_all_data when the data files appear after the server   *)
(* has started                                                             *)
(***************************************************************************)
\* a data file is put in place (os.path.exists turns true, app.py:256)
FileAppears(pq, csv) ==
    /\ parquet_file = NULL
    /\ csv_file = NULL
    /\ pq # NULL \/ csv # NULL
    /\ parquet_file' = pq
    /\ csv_file' = csv
    /\ UNCHANGED <<data_cache, pc, force_refresh, result, calls, source_reads,
                   unforced_builds, response>>
    /\ UNCHANGED drillVars

NextReload ==
    \/ \E t \in Threads, force \in BOOLEAN : Call(t, force)
    \/ \E t \in Threads : CheckCache(t)
    \/ \E t \in Threads : ReadFiles(t)
    \/ \E t \in Threads : StoreCache(t)
    \/ \E files \in {<<[rows |-> {R1, R2, R3}, date_dtype |-> "object"], NULL>>,
                       <<NULL, [rows |-> Pool, date_dtype |-> "datetime64"]>>} :
          FileAppears(files[1], files[2])

SpecReload == InitDrillSpec /\ [][NextReload]_vars

C30_KpiCountsDisjoint ==
    (response # NULL /\ response.callback = "get_kpis")
    => LET rows == {r \in crimes : r.date = response.args}
           n(category) == Cardinality({r \in rows : categorize_offense(r.offense) = category})
       IN /\ response.kpis.total = Cardinality(rows)
          /\ response.kpis.violent = n("Violent")
          /\ response.kpis.property = n("Property")
          /\ response.kpis.other = n("Other")
          /\ response.kpis.other >= 0
          /\ rows # {} => response.kpis = kpi_by_date(response.args)

====
